---- MODULE Spec2Model ----
(***************************************************************************)
(* Model of the incremental ingestion pipeline of youtube-ingest:          *)
(*   - the Catalog Pass   (VideosService.ingestChannelsByIds,              *)
(*                         YoutubeClient.listUploadsSince)                 *)
(*   - the Enrichment Pass (IngestService.runEnrichEligible,               *)
(*                          IngestService.selectEligiblePage)              *)
(*   - channel selection  (ChannelService.listForIngest,                   *)
(*                         VideosService.runIngestFromDb)                  *)
(*   - Discovery          (ChannelService.discoverFromHandles,             *)
(*                         discoverFromJson, mergeDiscoverRows)            *)
(*   - the retry loop     (withBackoff)                                    *)
(*   - the limiters       (channelLimit, chunkLimit, perVideo)             *)
(*   - single functions   (listUploadsSince, computeEngagement,            *)
(*                         upsertFromYoutubeItem, refineVision)            *)
(* Times are whole seconds since an arbitrary origin (the code works in    *)
(* milliseconds; every time of the model is a whole second).  An ISO-8601  *)
(* string is a record [sec, frac]: frac = TRUE is the "....000Z" form that *)
(* Date.toISOString() prints, frac = FALSE the "...:ssZ" form the platform *)
(* API sends.  The code compares these strings with <, >=, > (code units). *)
(***************************************************************************)
EXTENDS Integers, Sequences, FiniteSets, TLC

VARIABLES
    \* ---- persisted state -------------------------------------------------
    channelRepo,      \* Channel table: channel id -> row (partial function)
    videoRepo,        \* Video table: video id -> row (partial function)
    thumbnailRepo,    \* Thumbnail table: set of video ids that have a row
    \* ---- upstream platform ----------------------------------------------
    listing,          \* channel id -> its uploads playlist, in listing order
    now,              \* wall clock (Date.now()), seconds
    \* ---- one ingestChannelsByIds call ------------------------------------
    phase,            \* "idle" | "catalog" | "enrich"
    runs,             \* number of passes started so far
    params,           \* arguments of the running / last Catalog Pass
    pc,               \* channel id -> position of its channelLimit task
    task,             \* channel id -> locals of its task
    acc,              \* accumulators videosSeen / rowsUpserted
    channelsProcessed,
    summary,          \* the VideoSummary returned by the last pass
    \* ---- observation of the run (history) --------------------------------
    pre,              \* Channel table as it was when the pass was called
    rerun,            \* whether the pass repeats the one before it (same arguments, the
                      \* platform answering, listings unchanged since), and the Video
                      \* table at its call if so (history)
    writes,           \* channel id -> scrapeStatus values written in this run
    lost,             \* videos collected by some run whose hydration/upsert failed
    \* ---- one runEnrichEligible call --------------------------------------
    eparams,          \* arguments of the running / last Enrichment Pass
    eruns,            \* number of Enrichment Passes started so far
    cursor,           \* keyset cursor (cursorPublishedAt, cursorVideoId)
    page,             \* the page being enriched
    settled,          \* video ids of the page whose enrichOne task has settled
    pages,            \* pages returned so far in this run, in order (history)
    elig0,            \* the eligible video ids when the run was called (history)
    thumb0,           \* the Thumbnail table when the run was called (history)
    epc,              \* position of runEnrichEligible
    eacc,             \* accumulators videosSeen / imagesSaved / rowsUpserted
    esummary,         \* the IngestSummary returned by the last Enrichment Pass
    imageFiles,       \* video ids whose thumbnail file is in the image directory
    thumbnailRows,    \* video id -> fields of its Thumbnail row written by enrichOne
    outcome,          \* video id -> how its enrichOne task of this page settled (history)
    interrupted,      \* Enrichment Passes that were killed before returning (history)
    \* ---- runIngestFromDb ---------------------------------------------------
    dbcall,           \* the last runIngestFromDb call: its options and the rows selected
    \* ---- one discoverFromHandles / discoverFromJson call -------------------
    dflow,            \* "off" | "handles" | "json": which method was called
    dpc,              \* "off" | "run" | "returned" | "threw"
    dinput,           \* the argument: handles, or the rows of the JSON file
    dtodo,            \* the entries the loop works on (input / merged)
    ddone,            \* positions of dtodo already processed
    dsum,             \* the DiscoverSummary being built, then returned
    lookups,          \* handles given to getChannelByHandle in this call (history)
    \* ---- one withBackoff call ----------------------------------------------
    maxRetries,       \* its parameter
    attempt,          \* retries so far
    delay,            \* the next sleep, ms
    fnCalls,          \* invocations of the wrapped request so far (history)
    bpc,              \* "call" | "sleep" | "returned" | "threw"
    berr,             \* HTTP status of the last failed attempt (0: none)
    \* ---- the limiters of one ingestChannelsByIds call -----------------------
    chState,          \* channel -> position of its task on channelLimit
    chunkState,       \* channel -> its chunk tasks on chunkLimit, with their per-video tasks
    chunkQueue,       \* the chunk tasks waiting on chunkLimit, first in first out
    \* ---- calls of single functions ------------------------------------------
    pageLen,          \* items the platform puts on one playlistItems page
    call              \* the last function call made on its own: arguments and result

catalogVars == <<channelRepo, listing, now, phase, runs, params, pc, task, acc,
                 channelsProcessed, summary, pre, rerun, writes, lost>>
enrichVars  == <<eparams, eruns, cursor, page, settled, pages, elig0, thumb0, epc,
                 eacc, esummary, imageFiles, thumbnailRows, outcome, interrupted>>
discoverVars == <<dflow, dpc, dinput, dtodo, ddone, dsum, lookups>>
backoffVars == <<maxRetries, attempt, delay, fnCalls, bpc, berr>>
limitVars == <<chState, chunkState, chunkQueue>>
unitVars == <<pageLen, call>>
vars == <<channelRepo, videoRepo, thumbnailRepo, listing, now, phase, runs, params,
          pc, task, acc, channelsProcessed, summary, pre, rerun, writes, lost,
          eparams, eruns, cursor, page, settled, pages, elig0, thumb0, epc,
          eacc, esummary, imageFiles, thumbnailRows, outcome, interrupted,
          dbcall, dflow, dpc, dinput, dtodo, ddone, dsum, lookups,
          maxRetries, attempt, delay, fnCalls, bpc, berr,
          chState, chunkState, chunkQueue, pageLen, call>>

-----------------------------------------------------------------------------
(* Bounds of the model *)

MaxRuns == 2          \* passes per behaviour
MaxListing == 2       \* items in one channel's uploads playlist
PageLen == 1          \* items per playlistItems page during a pass (maxResults: 50)
ChunkLen == 1         \* ids per hydration chunk (chunkSize, 50)
MaxCap == 1           \* largest maxVideosPerChannel tried

(* Program constants *)

channelLimitN == 3
overlapSec == 5 * 60                 \* overlapMs = 5 * 60 * 1000
defaultWindowSec == 90 * 24 * 60 * 60

-----------------------------------------------------------------------------
(* Values *)

Channels == {"c1", "c2"}
VideoIds == {"v1", "v2", "v3", "v4"}
NullTime == -1
NullStr == "null"
NullIso == [sec |-> -1, frac |-> FALSE]
NoCap == 0
NoOverride == NullIso

DaySec == 24 * 60 * 60
Clock0 == 400 * DaySec
RunGapSec == 60 * 60

\* the platform's catalogue: who uploaded a video, and when; the one video of c2
\* is older than the default window of a first pass
channelOf(v) == IF v = "v4" THEN "c2" ELSE "c1"
publishedSecOf(v) ==
    CASE v = "v1" -> Clock0 - DaySec
      [] v = "v2" -> Clock0 - DaySec + (overlapSec \div 2)
      [] v = "v3" -> Clock0 - DaySec + overlapSec + (overlapSec \div 2)
      [] OTHER    -> Clock0 - 100 * DaySec

Min(a, b) == IF a < b THEN a ELSE b
Range(s) == {s[i] : i \in DOMAIN s}

\* all sequences over S without repetition, of length <= n
SeqsNoRep(S, n) ==
    UNION {{s \in [1..k -> S] : \A i, j \in 1..k : i # j => s[i] # s[j]} : k \in 0..n}

Listings(c) == SeqsNoRep({v \in VideoIds : channelOf(v) = c}, MaxListing)

-----------------------------------------------------------------------------
(* ISO strings and Dates *)

\* new Date(t).toISOString()
toISOString(t) == [sec |-> t, frac |-> TRUE]
\* the platform's timestamp format
apiIso(t) == [sec |-> t, frac |-> FALSE]
\* new Date(iso).getTime()
dateOf(iso) == iso.sec
\* a < b on strings: the seconds decide; at the same second ".000Z" < "Z"
IsoLT(a, b) == a.sec < b.sec \/ (a.sec = b.sec /\ a.frac /\ ~b.frac)
IsoGE(a, b) == ~IsoLT(a, b)
IsoGT(a, b) == IsoLT(b, a)

-----------------------------------------------------------------------------
(* The platform API as the Catalog Pass sees it *)

\* one item of a playlistItems page (contentDetails.videoId / videoPublishedAt)
itemOf(v) == [videoId |-> v, videoPublishedAt |-> apiIso(publishedSecOf(v))]

\* YoutubeClient.playlistItems: page k of a playlist, k >= 1; nextPageToken = 0
\* stands for "no further page"
playlistItems(pl, k) ==
    LET lo == (k - 1) * pageLen + 1
        hi == Min(k * pageLen, Len(pl))
    IN [items |-> [i \in 1..(IF hi >= lo THEN hi - lo + 1 ELSE 0) |-> itemOf(pl[lo + i - 1])],
        nextPageToken |-> IF k * pageLen < Len(pl) THEN k + 1 ELSE 0]

\* (mutant of collects: the lower bound is not looked at)
collectsWithoutBound(vid, vpa, afterIso) == vid # NullStr /\ vpa # NullIso

\* vid && vpa && vpa >= opts.publishedAfterIso
collects(vid, vpa, afterIso) == vid # NullStr /\ vpa # NullIso /\ IsoGE(vpa, afterIso)

\* the for-loop over the items of one page: [out, mostRecent]
RECURSIVE scanItems(_, _, _, _, _)
scanItems(items, i, out, mostRecent, afterIso) ==
    IF i > Len(items) THEN [out |-> out, mostRecent |-> mostRecent]
    ELSE LET vid == items[i].videoId
             vpa == items[i].videoPublishedAt
             mr  == IF vpa # NullIso /\ (mostRecent = NullIso \/ IsoGT(vpa, mostRecent))
                    THEN vpa ELSE mostRecent
             o   == IF collects(vid, vpa, afterIso) THEN Append(out, vid) ELSE out
         IN scanItems(items, i + 1, o, mr, afterIso)

truncateKeepsAll(out, n) == out

\* out.length = opts.maxVideos, on an array of at least that length
truncate(out, n) == SubSeq(out, 1, n)

\* (mutant of nextPageToken: the cutoff does not end the paging)
nextPageTokenIgnoringCutoff(hitCutoff, reachedCap, token) ==
    IF ~reachedCap THEN token ELSE 0

\* pageToken = !hitCutoff && !reachedCap ? page?.nextPageToken : undefined
nextPageToken(hitCutoff, reachedCap, token) ==
    IF ~hitCutoff /\ ~reachedCap THEN token ELSE 0

\* the do-while loop of listUploadsSince, entered with pageToken = k
RECURSIVE listLoop(_, _, _, _, _, _, _)
listLoop(pl, k, out, mostRecent, pagesFetched, afterIso, maxVideos) ==
    LET pg    == playlistItems(pl, k)
        items == pg.items
        done0 == [videoIds |-> out, mostRecentPublishedAt |-> mostRecent,
                  pagesFetched |-> pagesFetched + 1]
    IN IF Len(items) = 0 THEN done0
       ELSE LET sc         == scanItems(items, 1, out, mostRecent, afterIso)
                lastVpa    == items[Len(items)].videoPublishedAt
                hitCutoff  == lastVpa # NullIso /\ IsoLT(lastVpa, afterIso)
                reachedCap == maxVideos # NoCap /\ Len(sc.out) >= maxVideos
                out2       == IF reachedCap THEN truncate(sc.out, maxVideos) ELSE sc.out
                pageToken  == nextPageToken(hitCutoff, reachedCap, pg.nextPageToken)
            IN IF pageToken = 0
               THEN [videoIds |-> out2, mostRecentPublishedAt |-> sc.mostRecent,
                     pagesFetched |-> pagesFetched + 1]
               ELSE listLoop(pl, pageToken, out2, sc.mostRecent, pagesFetched + 1,
                             afterIso, maxVideos)

\* YoutubeClient.listUploadsSince, every page request succeeding
listUploadsSince(pl, afterIso, maxVideos) ==
    listLoop(pl, 1, <<>>, NullIso, 0, afterIso, maxVideos)

\* the items of the pages a listUploadsSince call fetched
observedBy(pl, pagesFetched) == {pl[i] : i \in 1..Min(Len(pl), pagesFetched * pageLen)}

-----------------------------------------------------------------------------
(* Catalog Pass: helpers *)

\* (mutant of computePublishedAfter: the watermark itself, without the overlap)
computePublishedAfterNoOverlap(hasRow, row, override) ==
    IF override # NoOverride THEN override
    ELSE IF hasRow /\ row.lastVideoPublishedAt # NullTime
         THEN toISOString(row.lastVideoPublishedAt)
         ELSE toISOString(now - defaultWindowSec)

\* VideosService.computePublishedAfter; hasRow = FALSE is "channel == null"
computePublishedAfter(hasRow, row, override) ==
    IF override # NoOverride THEN override
    ELSE IF hasRow /\ row.lastVideoPublishedAt # NullTime
         THEN toISOString(row.lastVideoPublishedAt - overlapSec)
         ELSE toISOString(now - defaultWindowSec)

\* collectedVideoIds.slice(i, i + chunkSize) for i = 0, chunkSize, ...
chunkOf(ids, n) == SubSeq(ids, (n - 1) * ChunkLen + 1, Min(n * ChunkLen, Len(ids)))
chunkCount(ids) == (Len(ids) + ChunkLen - 1) \div ChunkLen

\* (mutant of runningUpdate: the old scrapeError is left on the row)
runningUpdateKeepsError(row) == [row EXCEPT !.scrapeStatus = "running"]

\* the row channelRepo.update({id}, {scrapeStatus: 'running', scrapeError: null}) leaves
runningUpdate(row) == [row EXCEPT !.scrapeStatus = "running", !.scrapeError = NullStr]

\* the markers object built after the chunks settled, applied with scrapeStatus 'done'
doneUpdate(row, mostRecent, t) ==
    [row EXCEPT !.lastIngestAt = t,
                !.lastVideoPublishedAt =
                    IF mostRecent # NullIso THEN dateOf(mostRecent) ELSE @,
                !.scrapeStatus = "done"]

\* (mutant of errorUpdate: the catch block records the status without the detail)
errorUpdateNoDetail(row, e) == [row EXCEPT !.scrapeStatus = "error"]

\* the update of the catch block
errorUpdate(row, e) == [row EXCEPT !.scrapeStatus = "error", !.scrapeError = e]

-----------------------------------------------------------------------------
(* Video rows *)

NullEng == [num |-> 0, den |-> 0]

\* what the /videos endpoint and the shorts probe answer for a video
apiVideo(v) ==
    [id          |-> v,
     publishedAt |-> apiIso(publishedSecOf(v)),
     viewCount   |-> IF v = "v2" THEN 1 ELSE 7,
     maxresW     |-> IF v = "v3" THEN 0 ELSE 1280,
     highW       |-> 480,
     shortProbe  |-> IF v = "v4" THEN "short" ELSE "not-short"]

\* the subscribers passed in with each channel of the input
subscribersOf(c) == IF c = "c1" THEN 3 ELSE 0

\* (mutant of computeEngagement: the quotient without the guard)
computeEngagementUnguarded(views, subscribers) ==
    [num |-> views + 1, den |-> subscribers + 1]

\* VideosService.computeEngagement: ln(views+1)/ln(subscribers+1), kept as the
\* pair of arguments of the two logarithms; NullEng is null
computeEngagement(views, subscribers) ==
    IF subscribers <= 0 \/ views < 0 THEN NullEng
    ELSE [num |-> views + 1, den |-> subscribers + 1]

\* the row VideosService.upsertFromYoutubeItem writes for a /videos item
upsertFromYoutubeItem(v, channelId, channelSubscribers) ==
    [channelId     |-> channelId,
     publishedAt   |-> dateOf(v.publishedAt),
     has_720p_plus |-> IF v.maxresW >= 720 \/ v.highW >= 720 THEN 1 ELSE 0,
     is_short      |-> IF v.shortProbe = "short" THEN 1 ELSE 0,
     engagement    |-> computeEngagement(v.viewCount, channelSubscribers)]

\* videoRepo.upsert(row, ['videoId']) for a set of videos of one channel
upsertAll(repo, ids, channelId) ==
    [v \in DOMAIN repo \cup ids |->
        IF v \in ids
        THEN upsertFromYoutubeItem(apiVideo(v), channelId, subscribersOf(channelId))
        ELSE repo[v]]

-----------------------------------------------------------------------------
(* Catalog Pass: VideosService.ingestChannelsByIds *)

NoTask == [hasRow |-> FALSE, uploadsPlaylistId |-> NullStr, afterIso |-> NullIso,
           videoIds |-> <<>>, mostRecentPublishedAt |-> NullIso, pagesFetched |-> 0,
           chunks |-> <<>>, caught |-> NullStr,
           upserted |-> {}, upsertFailed |-> {}]

NoParams == [input |-> {}, publishedAfter |-> NoOverride, maxVideosPerChannel |-> NoCap,
             healthy |-> TRUE]

Overrides == {NoOverride, apiIso(publishedSecOf("v2"))}
Caps == {NoCap} \cup 1..MaxCap

\* a freshly discovered channel (ChannelService.upsertFromApi; entity defaults)
NullHandle == <<>>
NullJson == [null |-> TRUE, value |-> <<>>]
newChannel(uploads) ==
    [uploadsPlaylistId |-> uploads, lastVideoPublishedAt |-> NullTime,
     lastIngestAt |-> NullTime, scrapeStatus |-> "idle", scrapeError |-> NullStr,
     handle |-> NullHandle, country |-> NullStr, topicCategories_json |-> NullJson]

NoCursor == [publishedAt |-> NullTime, videoId |-> NullStr]

\* IngestAccumulators at the start of runEnrichEligible; no IngestSummary yet
NoAcc == [videosSeen |-> 0, imagesSaved |-> 0, rowsUpserted |-> 0]
NoSummary == [channelsProcessed |-> 0, videosSeen |-> 0, imagesSaved |-> 0,
              rowsUpserted |-> 0, returned |-> FALSE]

enrichIdle ==
    /\ eparams = [sinceDays |-> 0, pageSize |-> 0]
    /\ eruns = 0
    /\ cursor = NoCursor
    /\ page = <<>>
    /\ settled = {}
    /\ pages = <<>>
    /\ elig0 = {}
    /\ thumb0 = {}
    /\ epc = "off"
    /\ eacc = NoAcc
    /\ esummary = NoSummary
    /\ outcome = <<>>
    /\ interrupted = 0

\* no runIngestFromDb call yet
NoDbCall == [n |-> 0, statuses |-> {}, limit |-> 0, matched |-> <<>>]

\* DiscoverSummary under construction at the start of a discovery call
NoDiscoverSummary ==
    [handlesProcessed |-> 0, resolved |-> 0, notFound |-> <<>>, errors |-> <<>>,
     mappings |-> <<>>, upserts |-> 0]

discoverIdle ==
    /\ dflow = "off"
    /\ dpc = "off"
    /\ dinput = <<>>
    /\ dtodo = <<>>
    /\ ddone = {}
    /\ dsum = NoDiscoverSummary
    /\ lookups = <<>>

backoffIdle ==
    /\ maxRetries = 0
    /\ attempt = 0
    /\ delay = 0
    /\ fnCalls = 0
    /\ bpc = "off"
    /\ berr = 0

\* no limiter of a pass is followed
limitIdle ==
    /\ chState = <<>>
    /\ chunkState = <<>>
    /\ chunkQueue = <<>>

\* no function has been called on its own; the platform fills its pages
NoCall == [fn |-> "none"]
unitIdle ==
    /\ pageLen = PageLen
    /\ call = NoCall

\* no pass has been called
NoRerun == [repeats |-> FALSE, video0 |-> <<>>, changed |-> FALSE]

Init ==
    /\ \E known \in SUBSET Channels, withUploads \in SUBSET Channels :
          /\ withUploads \subseteq known
          /\ "c1" \in known
          /\ channelRepo = [c \in known |->
                newChannel(IF c \in withUploads THEN "UU" ELSE NullStr)]
    /\ videoRepo = <<>>
    /\ thumbnailRepo = {}
    /\ imageFiles = {}
    /\ thumbnailRows = <<>>
    /\ listing \in [Channels -> UNION {Listings(d) : d \in Channels}]
    /\ \A d \in Channels : listing[d] \in Listings(d)
    /\ listing["c2"] = <<"v4">>
    /\ now = Clock0
    /\ phase = "idle"
    /\ runs = 0
    /\ params = NoParams
    /\ pc = [c \in Channels |-> "off"]
    /\ task = [c \in Channels |-> NoTask]
    /\ acc = [videosSeen |-> 0, rowsUpserted |-> 0]
    /\ channelsProcessed = 0
    /\ summary = [channelsProcessed |-> 0, videosSeen |-> 0, rowsUpserted |-> 0,
                  tookSec |-> 0]
    /\ pre = channelRepo
    /\ rerun = NoRerun
    /\ writes = [c \in Channels |-> <<>>]
    /\ lost = {}
    /\ enrichIdle
    /\ dbcall = NoDbCall
    /\ discoverIdle
    /\ backoffIdle
    /\ limitIdle
    /\ unitIdle

\* the platform's listing changes between two passes (uploads, removals, reordering)
UpstreamChanges ==
    /\ phase = "idle"
    /\ runs < MaxRuns
    /\ \E c \in {"c1"} : \E l \in Listings(c) :
          /\ l # listing[c]
          /\ listing' = [listing EXCEPT ![c] = l]
    /\ rerun' = [rerun EXCEPT !.changed = TRUE]
    /\ UNCHANGED <<channelRepo, videoRepo, thumbnailRepo, now, phase, runs, params, pc,
                   task, acc, channelsProcessed, summary, pre, writes, lost, enrichVars,
                   dbcall, discoverVars, backoffVars, limitVars, unitVars>>

\* the call has not returned its VideoSummary yet
PendingSummary == [channelsProcessed |-> 0, videosSeen |-> 0, rowsUpserted |-> 0,
                   tookSec |-> NullTime]

\* entry of ingestChannelsByIds(channels, publishedAfter, maxVideosPerChannel):
\* one channelLimit task is queued per channel; healthy = FALSE lets the platform
\* API and the video upserts fail during this pass
ingestChannelsByIds(input, o, cap, healthy) ==
    /\ params' = [input |-> input, publishedAfter |-> o,
                  maxVideosPerChannel |-> cap, healthy |-> healthy]
    /\ pc' = [c \in Channels |-> IF c \in input THEN "queued" ELSE "off"]
    /\ phase' = "catalog"
    /\ task' = [c \in Channels |-> NoTask]
    /\ acc' = [videosSeen |-> 0, rowsUpserted |-> 0]
    /\ channelsProcessed' = 0
    /\ pre' = channelRepo
    /\ rerun' = LET again == /\ params # NoParams
                              /\ params = [input |-> input, publishedAfter |-> o,
                                           maxVideosPerChannel |-> cap,
                                           healthy |-> healthy]
                              /\ healthy
                              /\ ~rerun.changed
                 IN [repeats |-> again,
                     video0  |-> IF again THEN videoRepo ELSE <<>>,
                     changed |-> FALSE]
    /\ writes' = [c \in Channels |-> <<>>]
    /\ summary' = PendingSummary

\* ingestChannelsByIds is called directly, with the channels of the model
BeginCatalog ==
    /\ phase = "idle"
    /\ runs < MaxRuns
    /\ \E input \in {Channels}, o \in Overrides, cap \in Caps, healthy \in BOOLEAN :
          ingestChannelsByIds(input, o, cap, healthy)
    /\ runs' = runs + 1
    /\ now' = now + RunGapSec
    /\ UNCHANGED <<channelRepo, videoRepo, thumbnailRepo, listing, lost,
                   enrichVars, dbcall, discoverVars, backoffVars, limitVars, unitVars>>

\* position of a channel id in ascending id order (ORDER BY c.id ASC)
chOrd(c) == CASE c = "c1" -> 1 [] c = "c2" -> 2

\* ORDER BY c.lastIngestAt ASC, c.id ASC (MySQL sorts NULL first in ASC order)
ingestOrderLess(a, b) ==
    \/ channelRepo[a].lastIngestAt < channelRepo[b].lastIngestAt
    \/ (/\ channelRepo[a].lastIngestAt = channelRepo[b].lastIngestAt
        /\ chOrd(a) < chOrd(b))

\* the channel ids of S in the order of the query
RECURSIVE orderForIngest(_)
orderForIngest(S) ==
    IF S = {} THEN <<>>
    ELSE LET m == CHOOSE x \in S : \A y \in S \ {x} : ingestOrderLess(x, y)
         IN <<m>> \o orderForIngest(S \ {m})

\* qb.take(limit) when limit is given and > 0, read with getMany() on a query
\* without joins: a LIMIT
takeMany(rows, limit) ==
    IF limit > 0 THEN SubSeq(rows, 1, Min(limit, Len(rows))) ELSE rows

\* ChannelService.listForIngest(opts): an empty statuses / channelIds array is
\* the same as none
listForIngest(opts) ==
    LET hit == {c \in DOMAIN channelRepo :
                   /\ opts.statuses # {} => channelRepo[c].scrapeStatus \in opts.statuses
                   /\ opts.channelIds # {} => c \in opts.channelIds}
    IN takeMany(orderForIngest(hit), opts.limit)

\* option values tried
StatusSets == {{}, {"idle"}, {"done"}, {"error", "running"}}
Limits == {0, 1}
IdSets == {{}, {"c1"}, {"c2"}}

\* the VideoSummary of the early return of runIngestFromDb
ZeroSummary == [channelsProcessed |-> 0, videosSeen |-> 0, rowsUpserted |-> 0,
                tookSec |-> 0]

\* VideosService.runIngestFromDb({statuses, limit}): the same query as
\* listForIngest without the id list; no channel: the zeroed summary at once;
\* otherwise the call goes on in ingestChannelsByIds.  earlyReturn = FALSE is the
\* method without its 'if (!channels.length) return'
runIngestFromDb(earlyReturn) ==
    /\ phase = "idle"
    /\ runs < MaxRuns
    /\ \E st \in StatusSets, lim \in Limits :
          LET rows == listForIngest([statuses |-> st, channelIds |-> {}, limit |-> lim])
          IN /\ dbcall' = [n |-> dbcall.n + 1, statuses |-> st, limit |-> lim,
                           matched |-> rows]
             /\ IF earlyReturn /\ Len(rows) = 0
                THEN /\ summary' = ZeroSummary
                     /\ UNCHANGED <<params, pc, phase, task, acc, channelsProcessed,
                                    pre, rerun, writes>>
                ELSE ingestChannelsByIds(Range(rows), NoOverride, NoCap, TRUE)
    /\ runs' = runs + 1
    /\ now' = now + RunGapSec
    /\ UNCHANGED <<channelRepo, videoRepo, thumbnailRepo, listing, lost,
                   enrichVars, discoverVars, backoffVars, limitVars, unitVars>>

RunIngestFromDbNoEarlyReturn == runIngestFromDb(FALSE)

RunIngestFromDb == runIngestFromDb(TRUE)

\* a channelLimit slot frees up: findOne, computePublishedAfter, mark 'running'
TaskStart(c) ==
    /\ phase = "catalog"
    /\ pc[c] = "queued"
    /\ Cardinality({d \in Channels : pc[d] \in {"try", "chunks"}}) < channelLimitN
    /\ LET hasRow == c \in DOMAIN channelRepo
           row    == IF hasRow THEN channelRepo[c] ELSE newChannel(NullStr)
       IN /\ task' = [task EXCEPT ![c] =
                 [NoTask EXCEPT !.hasRow = hasRow,
                                !.uploadsPlaylistId = row.uploadsPlaylistId,
                                !.afterIso = computePublishedAfter(hasRow, row,
                                                                   params.publishedAfter)]]
          /\ IF hasRow
             THEN /\ channelRepo' = [channelRepo EXCEPT ![c] = runningUpdate(@)]
                  /\ writes' = [writes EXCEPT ![c] = Append(@, "running")]
             ELSE UNCHANGED <<channelRepo, writes>>
    /\ pc' = [pc EXCEPT ![c] = "try"]
    /\ UNCHANGED <<videoRepo, thumbnailRepo, listing, now, phase, runs, params, acc,
                   channelsProcessed, summary, pre, rerun, lost, enrichVars,
                   dbcall, discoverVars, backoffVars, limitVars, unitVars>>

\* "Missing uploadsPlaylistId ..., skipping": the task returns from inside the try
TaskSkip(c) ==
    /\ phase = "catalog"
    /\ pc[c] = "try"
    /\ task[c].uploadsPlaylistId = NullStr
    /\ pc' = [pc EXCEPT ![c] = "settled"]
    /\ UNCHANGED <<channelRepo, videoRepo, thumbnailRepo, listing, now, phase, runs,
                   params, task, acc, channelsProcessed, summary, pre, rerun, writes, lost,
                   enrichVars,
                   dbcall, discoverVars, backoffVars, limitVars, unitVars>>

\* listUploadsSince returns; the hydration chunks are queued on chunkLimit
TaskList(c) ==
    /\ phase = "catalog"
    /\ pc[c] = "try"
    /\ task[c].uploadsPlaylistId # NullStr
    /\ LET r == listUploadsSince(listing[c], task[c].afterIso, params.maxVideosPerChannel)
       IN task' = [task EXCEPT ![c] =
                [@ EXCEPT !.videoIds = r.videoIds,
                          !.mostRecentPublishedAt = r.mostRecentPublishedAt,
                          !.pagesFetched = r.pagesFetched,
                          !.chunks = [n \in 1..chunkCount(r.videoIds) |-> "pending"]]]
    /\ pc' = [pc EXCEPT ![c] = "chunks"]
    /\ UNCHANGED <<channelRepo, videoRepo, thumbnailRepo, listing, now, phase, runs,
                   params, acc, channelsProcessed, summary, pre, rerun, writes, lost, enrichVars,
                   dbcall, discoverVars, backoffVars, limitVars, unitVars>>

\* (mutant of TaskListThrows: no catch block, and the pass awaits its tasks with
\* Promise.all, so the exception of one channel ends the whole call)
TaskListThrowsAbortsPass(c) ==
    /\ phase = "catalog"
    /\ pc[c] = "try"
    /\ task[c].uploadsPlaylistId # NullStr
    /\ ~params.healthy
    /\ task' = [task EXCEPT ![c].caught = "AxiosError: playlistItems"]
    /\ pc' = [pc EXCEPT ![c] = "settled"]
    /\ phase' = "idle"
    /\ UNCHANGED <<channelRepo, writes, videoRepo, thumbnailRepo, listing, now, runs,
                   params, acc, channelsProcessed, summary, pre, rerun, lost, enrichVars,
                   dbcall, discoverVars, backoffVars, limitVars, unitVars>>

\* a playlistItems request of listUploadsSince throws: the catch block runs
TaskListThrows(c) ==
    /\ phase = "catalog"
    /\ pc[c] = "try"
    /\ task[c].uploadsPlaylistId # NullStr
    /\ ~params.healthy
    /\ LET e == "AxiosError: playlistItems"
       IN /\ task' = [task EXCEPT ![c].caught = e]
          /\ IF task[c].hasRow
             THEN /\ channelRepo' = [channelRepo EXCEPT ![c] = errorUpdate(@, e)]
                  /\ writes' = [writes EXCEPT ![c] = Append(@, "error")]
             ELSE UNCHANGED <<channelRepo, writes>>
    /\ pc' = [pc EXCEPT ![c] = "settled"]
    /\ UNCHANGED <<videoRepo, thumbnailRepo, listing, now, phase, runs, params, acc,
                   channelsProcessed, summary, pre, rerun, lost, enrichVars,
                   dbcall, discoverVars, backoffVars, limitVars, unitVars>>

\* processVideoIds of chunk n: getVideos answers, every item counts in videosSeen,
\* the upserts of the ids in failed throw (caught and logged per video);
\* inTry = TRUE is rowsUpserted++ where the code has it, after the upsert inside
\* the try.  task[c].upserted and task[c].upsertFailed keep which upserts of the
\* pass succeeded and which threw (history)
chunkHydrated(c, n, inTry) ==
    /\ phase = "catalog"
    /\ pc[c] = "chunks"
    /\ n \in DOMAIN task[c].chunks
    /\ task[c].chunks[n] = "pending"
    /\ LET ids == Range(chunkOf(task[c].videoIds, n))
       IN \E failed \in SUBSET ids :
             /\ (params.healthy => failed = {})
             /\ videoRepo' = upsertAll(videoRepo, ids \ failed, c)
             /\ acc' = [videosSeen |-> acc.videosSeen + Cardinality(ids),
                        rowsUpserted |-> acc.rowsUpserted +
                            (IF inTry THEN Cardinality(ids \ failed)
                             ELSE Cardinality(ids))]
             /\ lost' = lost \cup failed
             /\ task' = [task EXCEPT ![c].chunks[n] = "fulfilled",
                                     ![c].upserted = @ \cup (ids \ failed),
                                     ![c].upsertFailed = @ \cup failed]
    /\ UNCHANGED <<channelRepo, thumbnailRepo, listing, now, phase, runs, params, pc,
                   channelsProcessed, summary, pre, rerun, writes, enrichVars,
                   dbcall, discoverVars, backoffVars, limitVars, unitVars>>

\* (mutant of ChunkHydrated: rowsUpserted++ is outside the try)
ChunkHydratedCountsFailures(c, n) == chunkHydrated(c, n, FALSE)

ChunkHydrated(c, n) == chunkHydrated(c, n, TRUE)

\* processVideoIds of chunk n: getVideos throws, the chunk task rejects
ChunkRejected(c, n) ==
    /\ phase = "catalog"
    /\ pc[c] = "chunks"
    /\ n \in DOMAIN task[c].chunks
    /\ task[c].chunks[n] = "pending"
    /\ ~params.healthy
    /\ task' = [task EXCEPT ![c].chunks[n] = "rejected"]
    /\ lost' = lost \cup Range(chunkOf(task[c].videoIds, n))
    /\ UNCHANGED <<channelRepo, videoRepo, thumbnailRepo, listing, now, phase, runs,
                   params, pc, acc, channelsProcessed, summary, pre, rerun, writes, enrichVars,
                   dbcall, discoverVars, backoffVars, limitVars, unitVars>>

\* the code after the chunk tasks were awaited: markers, 'done',
\* channelsProcessed++; awaitsAll = TRUE is Promise.allSettled(chunkTasks), which
\* resolves once every chunk task has settled
taskFinish(c, awaitsAll) ==
    /\ phase = "catalog"
    /\ pc[c] = "chunks"
    /\ awaitsAll => \A n \in DOMAIN task[c].chunks : task[c].chunks[n] # "pending"
    /\ IF task[c].hasRow
       THEN /\ channelRepo' = [channelRepo EXCEPT ![c] =
                    doneUpdate(@, task[c].mostRecentPublishedAt, now)]
            /\ writes' = [writes EXCEPT ![c] = Append(@, "done")]
       ELSE UNCHANGED <<channelRepo, writes>>
    /\ channelsProcessed' = channelsProcessed + 1
    /\ pc' = [pc EXCEPT ![c] = "settled"]
    /\ UNCHANGED <<videoRepo, thumbnailRepo, listing, now, phase, runs, params, task,
                   acc, summary, pre, rerun, lost, enrichVars,
                   dbcall, discoverVars, backoffVars, limitVars, unitVars>>

\* (mutant of TaskFinish: the chunk tasks are not awaited)
TaskFinishNotAwaiting(c) == taskFinish(c, FALSE)

\* Promise.allSettled(chunkTasks) resolves: markers, 'done', channelsProcessed++
TaskFinish(c) == taskFinish(c, TRUE)

\* Promise.allSettled(tasks) resolves and the summary is returned
EndCatalog ==
    /\ phase = "catalog"
    /\ \A c \in params.input : pc[c] = "settled"
    /\ \E took \in {0, 1} :
          summary' = [channelsProcessed |-> channelsProcessed,
                      videosSeen |-> acc.videosSeen, rowsUpserted |-> acc.rowsUpserted,
                      tookSec |-> took]
    /\ phase' = "idle"
    /\ UNCHANGED <<channelRepo, videoRepo, thumbnailRepo, listing, now, runs, params,
                   pc, task, acc, channelsProcessed, pre, rerun, writes, lost, enrichVars,
                   dbcall, discoverVars, backoffVars, limitVars, unitVars>>

Next ==
    \/ UpstreamChanges
    \/ BeginCatalog
    \/ RunIngestFromDb
    \/ \E c \in Channels : TaskStart(c)
    \/ \E c \in Channels : TaskSkip(c)
    \/ \E c \in Channels : TaskList(c)
    \/ \E c \in Channels : TaskListThrows(c)
    \/ \E c \in Channels, n \in 1..MaxListing : ChunkHydrated(c, n)
    \/ \E c \in Channels, n \in 1..MaxListing : ChunkRejected(c, n)
    \/ \E c \in Channels : TaskFinish(c)
    \/ EndCatalog

Spec == Init /\ [][Next]_vars

-----------------------------------------------------------------------------
(* Enrichment Pass: IngestService.selectEligiblePage / runEnrichEligible *)

MaxEnrichRuns == 2    \* Enrichment Passes per behaviour
MaxFaulty == 1         \* enrichOne invocations of one page that meet a failure
MaxPageSize == 2      \* largest pageSize tried
defaultSinceDays == 365

\* the order of video ids as strings; 0 is the empty string (cursorVideoId ?? '')
idOrd(v) == CASE v = "v1" -> 1 [] v = "v2" -> 2 [] v = "v3" -> 3 [] v = "v4" -> 4
              [] OTHER -> 0

RECURSIVE Pow(_, _)
Pow(b, e) == IF e = 0 THEN 1 ELSE b * Pow(b, e - 1)

\* v.engagement > 0.7 on ln(num)/ln(den); a NULL engagement compares as not true
engagementAbove07(e) == e # NullEng /\ Pow(e.num, 10) > Pow(e.den, 7)

\* (publishedAt, videoId) of a before that of b: ORDER BY v.publishedAt, v.videoId
keyLess(pa, va, pb, vb) == pa < pb \/ (pa = pb /\ idOrd(va) < idOrd(vb))

\* The WHERE clause the query builder emits.  where/andWhere append their
\* condition strings joined by AND and add no parentheses of their own, so the
\* cursor string '(.. > :cp) OR (.. = :cp AND .. > :cv)' leaves its OR at the
\* top level of the clause:  f1 AND .. AND f5 AND (p > cp) OR (p = cp AND id > cv)
whereClause(v, opts) ==
    LET row == videoRepo[v]
        filters == /\ row.is_short = 0
                   /\ row.has_720p_plus = 1
                   /\ v \notin thumbnailRepo
                   /\ row.publishedAt >= now - opts.sinceDays * DaySec
                   /\ engagementAbove07(row.engagement)
    IN IF opts.cursorPublishedAt = NullTime
       THEN filters
       ELSE \/ (filters /\ row.publishedAt > opts.cursorPublishedAt)
            \/ (/\ row.publishedAt = opts.cursorPublishedAt
                /\ idOrd(v) > idOrd(opts.cursorVideoId))

\* the ids of S in ascending (publishedAt, videoId) order
RECURSIVE orderByKey(_)
orderByKey(S) ==
    IF S = {} THEN <<>>
    ELSE LET m == CHOOSE x \in S : \A y \in S \ {x} :
                      keyLess(videoRepo[x].publishedAt, x, videoRepo[y].publishedAt, y)
         IN <<m>> \o orderByKey(S \ {m})

\* .take(pageSize) on a query read with getRawMany(): the builder turns take into
\* a LIMIT only for a query without joins (a joined query is paginated by
\* getMany's two-step read); this query left-joins Thumbnail, so the raw
\* statement carries no LIMIT and every matching row comes back
takeRaw(rows, pageSize) == rows

\* IngestService.selectEligiblePage: the page of pointers
selectEligiblePage(opts) ==
    LET hit == {v \in DOMAIN videoRepo : whereClause(v, opts)}
        ptr(v) == [videoId |-> v, channelId |-> videoRepo[v].channelId,
                   publishedAt |-> videoRepo[v].publishedAt]
        ord == orderByKey(hit)
    IN takeRaw([i \in 1..Len(ord) |-> ptr(ord[i])], opts.pageSize)

\* the eligibility predicate of the Enrichment Pass
Eligible(v) ==
    /\ v \in DOMAIN videoRepo
    /\ videoRepo[v].is_short = 0
    /\ videoRepo[v].has_720p_plus = 1
    /\ v \notin thumbnailRepo
    /\ videoRepo[v].publishedAt >= now - eparams.sinceDays * DaySec
    /\ engagementAbove07(videoRepo[v].engagement)

\* Video rows an earlier Catalog Pass can have written for channel c1: a /videos
\* item that passes every filter, or one that differs from it in one respect
EnrichTimes == {Clock0 - 2 * DaySec, Clock0 - DaySec}
OldTime == Clock0 - (defaultSinceDays + 1) * DaySec
goodItem(v, t) ==
    [id |-> v, publishedAt |-> apiIso(t), viewCount |-> 7, maxresW |-> 1280,
     highW |-> 480, shortProbe |-> "not-short"]
ItemsFor(v) ==
    UNION {{goodItem(v, t),
            [goodItem(v, t) EXCEPT !.viewCount = 1],
            [goodItem(v, t) EXCEPT !.maxresW = 0],
            [goodItem(v, t) EXCEPT !.shortProbe = "short"]} : t \in EnrichTimes}
    \cup {goodItem(v, OldTime)}
EnrichVideoIds == {"v1", "v2", "v3"}

\* ocrBasic: the recognised text of the file, or the empty result of its catch
\* block when the worker, the preprocessing or the recognition throws
NullPct == -1
ocrBasic(throws) ==
    IF throws THEN [charCount |-> 0, areaPct |-> NullPct, rawText |-> ""]
    ELSE [charCount |-> 4, areaPct |-> 10, rawText |-> "TEXT"]

\* the tRow enrichOne builds for video v from its Video row and the OCR result
\* createHash('sha1').update(channelId).digest(), its first four bytes as two
\* 16-bit halves, for the channel ids met here
sha1Head(channelId) ==
    CASE channelId = "c1" -> [hi |-> 12066, lo |-> 30301]
      [] channelId = "c2" -> [hi |-> 27423, lo |-> 21296]
      [] channelId = "c3" -> [hi |-> 42533, lo |-> 16495]
      [] channelId = "c8" -> [hi |-> 40836, lo |-> 44395]

\* h.readUInt32BE(0) % 100: (hi * 65536 + lo) mod 100, with 65536 mod 100 = 36
readUInt32BEmod100(h) == (h.hi * 36 + h.lo) % 100

\* (mutant of assignSplit: a label that changes from one pass to the next)
assignSplitPerRun(channelId) == IF eruns % 2 = 1 THEN "train" ELSE "val"

\* assignSplit(channelId): 80 / 10 / 10 by the hash of the channel id
assignSplit(channelId) ==
    LET val == readUInt32BEmod100(sha1Head(channelId))
    IN IF val < 80 THEN "train"
       ELSE IF val < 90 THEN "val"
       ELSE "test"

thumbnailRowOf(v, ocr) ==
    [videoId |-> v, channelId |-> videoRepo[v].channelId,
     publishedAt |-> toISOString(videoRepo[v].publishedAt),
     ocr_charCount |-> ocr.charCount, ocr_areaPct |-> ocr.areaPct,
     engagementScore |-> videoRepo[v].engagement,
     split |-> assignSplit(videoRepo[v].channelId)]

\* The steps of enrichOne that can fail in one invocation: "src" no thumbnail url
\* is resolved, "download" downloadToFile throws, "read" readFile / pHash throws,
\* "ocr" the recognition throws inside ocrBasic, "vision" analyzeImage throws,
\* "upsert" thumbnailRepo.upsert throws
FaultSets == {{}, {"src"}, {"download"}, {"read"}, {"ocr"}, {"vision"},
              {"ocr", "vision"}, {"upsert"}}

\* enrichOne if ocrBasic let the recognition error through
enrichOneOcrPropagates(v, f) ==
    LET NoRow == thumbnailRowOf(v, ocrBasic(TRUE))
        onDisk == v \in imageFiles
    IN IF "src" \in f
       THEN [result |-> "returned", requested |-> FALSE, saved |-> FALSE, tRow |-> NoRow]
       ELSE IF ~onDisk /\ "download" \in f
       THEN [result |-> "returned", requested |-> TRUE, saved |-> FALSE, tRow |-> NoRow]
       ELSE IF f # {}
       THEN [result |-> "threw", requested |-> ~onDisk, saved |-> ~onDisk, tRow |-> NoRow]
       ELSE [result |-> "upserted", requested |-> ~onDisk, saved |-> ~onDisk,
             tRow |-> thumbnailRowOf(v, ocrBasic(FALSE))]

\* (mutant of enrichOne: the download is made without looking for the file)
enrichOneAlwaysDownloads(v, f) ==
    LET NoRow == thumbnailRowOf(v, ocrBasic(TRUE))
        ocr == ocrBasic("ocr" \in f)
    IN IF "src" \in f
       THEN [result |-> "returned", requested |-> FALSE, saved |-> FALSE, tRow |-> NoRow]
       ELSE IF "download" \in f
       THEN [result |-> "returned", requested |-> TRUE, saved |-> FALSE, tRow |-> NoRow]
       ELSE IF "read" \in f \/ "vision" \in f \/ "upsert" \in f
       THEN [result |-> "threw", requested |-> TRUE, saved |-> TRUE, tRow |-> NoRow]
       ELSE [result |-> "upserted", requested |-> TRUE, saved |-> TRUE,
             tRow |-> thumbnailRowOf(v, ocr)]

\* IngestService.enrichOne on the Video row v: how the call ends ("returned" is
\* the early return, "threw" a rejected promise), whether it asked for the
\* download (the access check on savePath failed), whether it wrote the image
\* file (imagesSaved++ follows the write), and the Thumbnail row it upserted
enrichOne(v, f) ==
    LET NoRow == thumbnailRowOf(v, ocrBasic(TRUE))
        onDisk == v \in imageFiles
        ocr == ocrBasic("ocr" \in f)
    IN IF "src" \in f
       THEN [result |-> "returned", requested |-> FALSE, saved |-> FALSE, tRow |-> NoRow]
       ELSE IF ~onDisk /\ "download" \in f
       THEN [result |-> "returned", requested |-> TRUE, saved |-> FALSE, tRow |-> NoRow]
       ELSE IF "read" \in f \/ "vision" \in f \/ "upsert" \in f
       THEN [result |-> "threw", requested |-> ~onDisk, saved |-> ~onDisk, tRow |-> NoRow]
       ELSE [result |-> "upserted", requested |-> ~onDisk, saved |-> ~onDisk,
             tRow |-> thumbnailRowOf(v, ocr)]

catalogIdle ==
    /\ channelRepo = [c \in Channels |-> newChannel("UU")]
    /\ listing = [c \in Channels |-> <<>>]
    /\ now = Clock0
    /\ phase = "idle"
    /\ runs = 0
    /\ params = NoParams
    /\ pc = [c \in Channels |-> "off"]
    /\ task = [c \in Channels |-> NoTask]
    /\ acc = [videosSeen |-> 0, rowsUpserted |-> 0]
    /\ channelsProcessed = 0
    /\ summary = [channelsProcessed |-> 0, videosSeen |-> 0, rowsUpserted |-> 0,
                  tookSec |-> 0]
    /\ pre = channelRepo
    /\ rerun = NoRerun
    /\ writes = [c \in Channels |-> <<>>]
    /\ lost = {}

InitEnrich ==
    /\ catalogIdle
    /\ \E item \in [EnrichVideoIds -> UNION {ItemsFor(v) : v \in EnrichVideoIds}] :
          /\ \A v \in EnrichVideoIds : item[v] \in ItemsFor(v)
          /\ Cardinality({v \in EnrichVideoIds :
                            \A t \in EnrichTimes : item[v] # goodItem(v, t)}) <= 1
          /\ videoRepo = [v \in EnrichVideoIds |->
                            upsertFromYoutubeItem(item[v], "c1", subscribersOf("c1"))]
    /\ thumbnailRepo \in SUBSET EnrichVideoIds
    /\ imageFiles = thumbnailRepo
    /\ thumbnailRows = [v \in thumbnailRepo |-> thumbnailRowOf(v, ocrBasic(FALSE))]
    /\ enrichIdle
    /\ dbcall = NoDbCall
    /\ discoverIdle
    /\ backoffIdle
    /\ limitIdle
    /\ unitIdle

\* runEnrichEligible({sinceDays, pageSize}) is called
BeginEnrich ==
    /\ phase = "idle"
    /\ eruns < MaxEnrichRuns
    /\ \E ps \in 1..MaxPageSize :
          eparams' = [sinceDays |-> defaultSinceDays, pageSize |-> ps]
    /\ eruns' = eruns + 1
    /\ phase' = "enrich"
    /\ epc' = "select"
    /\ cursor' = NoCursor
    /\ page' = <<>>
    /\ settled' = {}
    /\ pages' = <<>>
    /\ thumb0' = thumbnailRepo
    /\ eacc' = NoAcc
    /\ esummary' = NoSummary
    /\ outcome' = <<>>
    /\ UNCHANGED <<channelRepo, videoRepo, thumbnailRepo, listing, now, runs, params, pc,
                   task, acc, channelsProcessed, summary, pre, rerun, writes, lost,
                   imageFiles, thumbnailRows, interrupted,
                   dbcall, discoverVars, backoffVars, limitVars, unitVars>>
    /\ elig0' = {v \in DOMAIN videoRepo : Eligible(v)'}

\* one turn of the while loop up to the enrichment: the page is selected; an empty
\* page ends the run
SelectPage ==
    /\ phase = "enrich"
    /\ epc = "select"
    /\ LET p == selectEligiblePage([sinceDays |-> eparams.sinceDays,
                                    pageSize |-> eparams.pageSize,
                                    cursorPublishedAt |-> cursor.publishedAt,
                                    cursorVideoId |-> cursor.videoId])
       IN IF Len(p) = 0
          THEN /\ epc' = "done"
               /\ phase' = "idle"
               /\ esummary' = [channelsProcessed |-> 0,
                                videosSeen |-> eacc.videosSeen,
                                imagesSaved |-> eacc.imagesSaved,
                                rowsUpserted |-> eacc.rowsUpserted,
                                returned |-> TRUE]
               /\ UNCHANGED <<page, pages, eacc, outcome>>
          ELSE /\ epc' = "enrich"
               /\ page' = p
               /\ pages' = Append(pages, p)
               /\ eacc' = [eacc EXCEPT !.videosSeen = @ + Len(p)]
               /\ outcome' = <<>>
               /\ UNCHANGED <<phase, esummary>>
    /\ settled' = {}
    /\ UNCHANGED <<channelRepo, videoRepo, thumbnailRepo, listing, now, runs, params, pc,
                   task, acc, channelsProcessed, summary, pre, rerun, writes, lost,
                   eparams, eruns, cursor, elig0, thumb0,
                   imageFiles, thumbnailRows, interrupted,
                   dbcall, discoverVars, backoffVars, limitVars, unitVars>>

\* the enrichOne task of one row of the page settles, with the failures f of its
\* steps: it upserted the Thumbnail row, returned early, or threw (the rejection
\* stays in the array Promise.allSettled waits for)
EnrichOne(v) ==
    /\ phase = "enrich"
    /\ epc = "enrich"
    /\ v \in {page[i].videoId : i \in DOMAIN page} \ settled
    /\ \E f \in FaultSets :
          LET r == enrichOne(v, f)
          IN /\ f # {} => Cardinality({w \in DOMAIN outcome :
                                         outcome[w].faults # {}}) < MaxFaulty
             /\ imageFiles' = IF r.saved THEN imageFiles \cup {v} ELSE imageFiles
             /\ eacc' = [eacc EXCEPT
                           !.imagesSaved = IF r.saved THEN @ + 1 ELSE @,
                           !.rowsUpserted = IF r.result = "upserted" THEN @ + 1 ELSE @]
             /\ IF r.result = "upserted"
                THEN /\ thumbnailRepo' = thumbnailRepo \cup {v}
                     /\ thumbnailRows' =
                           [w \in thumbnailRepo \cup {v} |->
                               IF w = v THEN r.tRow ELSE thumbnailRows[w]]
                ELSE UNCHANGED <<thumbnailRepo, thumbnailRows>>
             /\ outcome' = [w \in DOMAIN outcome \cup {v} |->
                               IF w = v THEN [faults |-> f, result |-> r.result,
                                              downloadRequested |-> r.requested]
                               ELSE outcome[w]]
    /\ settled' = settled \cup {v}
    /\ UNCHANGED <<channelRepo, videoRepo, listing, now, phase, runs, params, pc,
                   task, acc, channelsProcessed, summary, pre, rerun, writes, lost,
                   eparams, eruns, cursor, page, pages, elig0, thumb0, epc,
                   esummary, interrupted,
                   dbcall, discoverVars, backoffVars, limitVars, unitVars>>

\* the cursor moved without waiting for the tasks of the page
AdvanceCursorEarly ==
    /\ phase = "enrich"
    /\ epc = "enrich"
    /\ cursor' = [publishedAt |-> page[Len(page)].publishedAt,
                  videoId |-> page[Len(page)].videoId]
    /\ epc' = "select"
    /\ UNCHANGED <<channelRepo, videoRepo, thumbnailRepo, listing, now, phase, runs,
                   params, pc, task, acc, channelsProcessed, summary, pre, rerun, writes, lost,
                   eparams, eruns, page, settled, pages, elig0, thumb0,
                   eacc, esummary, imageFiles, thumbnailRows, outcome, interrupted,
                   dbcall, discoverVars, backoffVars, limitVars, unitVars>>

\* Promise.allSettled of the page resolves: the cursor moves to the last row
AdvanceCursor ==
    /\ phase = "enrich"
    /\ epc = "enrich"
    /\ settled = {page[i].videoId : i \in DOMAIN page}
    /\ cursor' = [publishedAt |-> page[Len(page)].publishedAt,
                  videoId |-> page[Len(page)].videoId]
    /\ epc' = "select"
    /\ UNCHANGED <<channelRepo, videoRepo, thumbnailRepo, listing, now, phase, runs,
                   params, pc, task, acc, channelsProcessed, summary, pre, rerun, writes, lost,
                   eparams, eruns, page, settled, pages, elig0, thumb0,
                   eacc, esummary, imageFiles, thumbnailRows, outcome, interrupted,
                   dbcall, discoverVars, backoffVars, limitVars, unitVars>>

\* the process running runEnrichEligible is killed: the call never returns and its
\* locals (cursor, page, accumulators) are gone; the tables and the image
\* directory stay as they are
Interrupt ==
    /\ phase = "enrich"
    /\ phase' = "idle"
    /\ epc' = "killed"
    /\ interrupted' = interrupted + 1
    /\ UNCHANGED <<channelRepo, videoRepo, thumbnailRepo, listing, now, runs,
                   params, pc, task, acc, channelsProcessed, summary, pre, rerun, writes, lost,
                   eparams, eruns, cursor, page, settled, pages, elig0, thumb0,
                   eacc, esummary, imageFiles, thumbnailRows, outcome,
                   dbcall, discoverVars, backoffVars, limitVars, unitVars>>

NextEnrich ==
    \/ BeginEnrich
    \/ SelectPage
    \/ \E v \in VideoIds : EnrichOne(v)
    \/ AdvanceCursor
    \/ Interrupt

SpecEnrich == InitEnrich /\ [][NextEnrich]_vars

-----------------------------------------------------------------------------
(* Discovery: ChannelService.discoverFromHandles / discoverFromJson.  A handle
   is the sequence of the pieces of its string: " " is white space, "@" the at
   sign, any other piece a run of other characters. *)

MaxHandles == 3       \* handles in one discoverFromHandles call
MaxRows == 3          \* rows in one JSON file

\* String.prototype.trim
RECURSIVE trimStart(_)
trimStart(s) == IF s # <<>> /\ Head(s) = " " THEN trimStart(Tail(s)) ELSE s
RECURSIVE trimEnd(_)
trimEnd(s) ==
    IF s # <<>> /\ s[Len(s)] = " " THEN trimEnd(SubSeq(s, 1, Len(s) - 1)) ELSE s
trim(s) == trimEnd(trimStart(s))

\* ChannelService.normHandle: trimmed, '@' put in front unless it is there; the
\* empty string stays empty
normHandle(h) ==
    LET t == trim(h)
    IN IF t = <<>> THEN t ELSE IF Head(t) = "@" THEN t ELSE <<"@">> \o t

\* YoutubeClient.getChannelByHandle against the platform's directory: @foo is
\* channel c1 (its snippet carries a country), @baz is channel c2 (no country),
\* no other handle exists (items empty: null)
NoItem == [id |-> NullStr, uploads |-> NullStr, snippetCountry |-> NullStr]
getChannelByHandle(handle) ==
    LET h == IF handle # <<>> /\ Head(handle) = "@" THEN handle ELSE <<"@">> \o handle
    IN CASE h = <<"@", "foo">> ->
              [id |-> "c1", uploads |-> "UU", snippetCountry |-> "US"]
         [] h = <<"@", "baz">> ->
              [id |-> "c2", uploads |-> "UU", snippetCountry |-> NullStr]
         [] OTHER -> NoItem

\* categories: undefined, or an array
NoCategories == [given |-> FALSE, list |-> <<>>]
NoOverrides == [country |-> NullStr, categories |-> NoCategories]

\* JSON.stringify of an array of strings (the text is kept as the array it spells)
stringify(list) == [null |-> FALSE, value |-> list]

\* (mutant of upsertFromApi: the row is replaced by the entity, as a save of the
\* entity would, so the bookkeeping falls back to the column defaults)
upsertFromApiReplacesRow(repo, item, handle, overrides) ==
    LET entity == [newChannel(item.uploads) EXCEPT
                     !.handle = handle,
                     !.country = overrides.country,
                     !.topicCategories_json =
                         IF overrides.categories.given
                         THEN stringify(overrides.categories.list) ELSE NullJson]
    IN [c \in DOMAIN repo \cup {item.id} |-> IF c = item.id THEN entity ELSE repo[c]]

\* ChannelService.upsertFromApi: INSERT ... ON DUPLICATE KEY UPDATE of handle,
\* uploadsPlaylistId, country, topicCategories_json (and title, counts, etag); the
\* ingestion bookkeeping of an existing row stays.  An array, even an empty one,
\* is truthy
upsertFromApi(repo, item, handle, overrides) ==
    LET countryFromFile == overrides.country
        categoriesFromFile == overrides.categories
        old == IF item.id \in DOMAIN repo THEN repo[item.id] ELSE newChannel(NullStr)
        entity == [old EXCEPT
                     !.handle = handle,
                     !.uploadsPlaylistId = item.uploads,
                     !.country = countryFromFile,
                     !.topicCategories_json =
                         IF categoriesFromFile.given
                         THEN stringify(categoriesFromFile.list) ELSE NullJson]
    IN [c \in DOMAIN repo \cup {item.id} |-> IF c = item.id THEN entity ELSE repo[c]]

\* String(x).trim() on the country texts of the model (" " is a blank text)
trimText(c) == IF c = " " THEN "" ELSE c

\* discoverFromJson: one parsed array element made a DiscoverRow
parseRow(r) ==
    [handle |-> trim(r.handle),
     country |-> IF r.country = NullStr \/ r.country = "" THEN NullStr
                 ELSE trimText(r.country),
     categories |-> IF r.categories.given
                    THEN [given |-> TRUE,
                          list |-> SelectSeq(r.categories.list, LAMBDA x : trimText(x) # "")]
                    ELSE NoCategories]
parseRows(rows) == [i \in DOMAIN rows |-> parseRow(rows[i])]

\* Set.prototype.add of every element of xs, in order (insertion order is kept)
RECURSIVE addAll(_, _)
addAll(set, xs) ==
    IF xs = <<>> THEN set
    ELSE addAll(IF Head(xs) \in Range(set) THEN set ELSE Append(set, Head(xs)), Tail(xs))

\* Array.prototype.sort() without comparator on the category names of the model:
\* ascending in UTF-16 code units
catOrd(c) == CASE c = "Gaming" -> 1 [] c = "Music" -> 2 [] c = "News" -> 3
RECURSIVE sortCats(_)
sortCats(xs) ==
    IF xs = <<>> THEN <<>>
    ELSE LET m == CHOOSE x \in Range(xs) : \A y \in Range(xs) : catOrd(x) <= catOrd(y)
         IN SelectSeq(xs, LAMBDA x : x = m) \o sortCats(SelectSeq(xs, LAMBDA x : x # m))

\* the for loop of mergeDiscoverRows over the Map byHandle (kept in insertion
\* order); lastWins = FALSE is the other policy its comment mentions
RECURSIVE mergeLoop(_, _, _)
mergeLoop(rows, byHandle, lastWins) ==
    IF rows = <<>> THEN byHandle
    ELSE LET r == Head(rows)
             h == trim(r.handle)
             at == {k \in DOMAIN byHandle : byHandle[k].handle = h}
             prev == IF at = {} THEN [handle |-> h, country |-> NullStr, categories |-> <<>>]
                     ELSE byHandle[CHOOSE k \in at : TRUE]
             country == IF /\ r.country # NullStr /\ r.country # ""
                           /\ (lastWins \/ prev.country = NullStr)
                        THEN r.country ELSE prev.country
             categories == addAll(prev.categories,
                                  IF r.categories.given THEN r.categories.list ELSE <<>>)
             entry == [handle |-> h, country |-> country, categories |-> categories]
         IN IF h = <<>> THEN mergeLoop(Tail(rows), byHandle, lastWins)
            ELSE mergeLoop(Tail(rows),
                           IF at = {} THEN Append(byHandle, entry)
                           ELSE [k \in DOMAIN byHandle |->
                                    IF k \in at THEN entry ELSE byHandle[k]],
                           lastWins)

\* the entries of the Map made DiscoverRows, categories sorted
mergedRows(byHandle) ==
    [k \in DOMAIN byHandle |->
        [handle |-> byHandle[k].handle, country |-> byHandle[k].country,
         categories |-> [given |-> TRUE, list |-> sortCats(byHandle[k].categories)]]]

mergeDiscoverRowsFirstWins(rows) == mergedRows(mergeLoop(rows, <<>>, FALSE))

\* ChannelService.mergeDiscoverRows
mergeDiscoverRows(rows) == mergedRows(mergeLoop(rows, <<>>, TRUE))

\* inputs tried
HandlePool == {<<"@", "foo">>, <<"foo">>, <<"bar">>, <<" ", "baz">>, <<" ">>}
HandleInputs == UNION {[1..n -> HandlePool] : n \in 0..MaxHandles}
fileRow(h, c, given, cats) ==
    [handle |-> h, country |-> c, categories |-> [given |-> given, list |-> cats]]
RowPool ==
    {fileRow(<<"foo">>, "US", TRUE, <<"Music">>),
     fileRow(<<"@", "foo">>, "DE", TRUE, <<"News", "Gaming">>),
     fileRow(<<"foo">>, NullStr, FALSE, <<>>),
     fileRow(<<"foo">>, " ", TRUE, <<"Music", " ", "Gaming">>),
     fileRow(<<"foo">>, "DE", FALSE, <<>>),
     fileRow(<<"baz", " ">>, NullStr, TRUE, <<"Gaming">>),
     fileRow(<<"bar">>, "US", FALSE, <<>>),
     fileRow(<<" ">>, "US", FALSE, <<>>)}
FileInputs == UNION {[1..n -> RowPool] : n \in 0..MaxRows}

\* the Channel table before the call: empty, or channel c1 (discovered and
\* ingested earlier, country DE on its row; its last pass ended done, or ended in
\* error after an earlier one had stored a watermark)
InitDiscover ==
    /\ channelRepo \in
          {<<>>,
           [c \in {"c1"} |-> [newChannel("UU") EXCEPT !.handle = <<"@", "foo">>,
                                                     !.country = "DE",
                                                     !.scrapeStatus = "done",
                                                     !.lastIngestAt = Clock0 - DaySec]],
           [c \in {"c1"} |-> [newChannel("UU") EXCEPT
                                 !.handle = <<"@", "foo">>,
                                 !.country = "DE",
                                 !.scrapeStatus = "error",
                                 !.scrapeError = "AxiosError: playlistItems",
                                 !.lastIngestAt = Clock0 - DaySec,
                                 !.lastVideoPublishedAt = publishedSecOf("v3")]]}
    /\ videoRepo = <<>>
    /\ thumbnailRepo = {}
    /\ imageFiles = {}
    /\ thumbnailRows = <<>>
    /\ listing = [c \in Channels |-> <<>>]
    /\ now = Clock0
    /\ phase = "idle"
    /\ runs = 0
    /\ params = NoParams
    /\ pc = [c \in Channels |-> "off"]
    /\ task = [c \in Channels |-> NoTask]
    /\ acc = [videosSeen |-> 0, rowsUpserted |-> 0]
    /\ channelsProcessed = 0
    /\ summary = PendingSummary
    /\ pre = channelRepo
    /\ rerun = NoRerun
    /\ writes = [c \in Channels |-> <<>>]
    /\ lost = {}
    /\ enrichIdle
    /\ dbcall = NoDbCall
    /\ discoverIdle
    /\ backoffIdle
    /\ limitIdle
    /\ unitIdle

\* discoverFromHandles(handles) is called: normalized, empty ones dropped,
\* duplicates removed
BeginDiscoverHandles ==
    /\ dpc = "off"
    /\ \E handles \in HandleInputs :
          LET normed == [i \in DOMAIN handles |-> normHandle(handles[i])]
              input == addAll(<<>>, SelectSeq(normed, LAMBDA h : h # <<>>))
          IN /\ dinput' = handles
             /\ dtodo' = [i \in DOMAIN input |->
                             [handle |-> input[i], country |-> NullStr,
                              categories |-> NoCategories]]
    /\ dflow' = "handles"
    /\ dpc' = "run"
    /\ ddone' = {}
    /\ dsum' = NoDiscoverSummary
    /\ lookups' = <<>>
    /\ UNCHANGED <<channelRepo, videoRepo, thumbnailRepo, listing, now, phase, runs,
                   params, pc, task, acc, channelsProcessed, summary, pre, rerun, writes, lost,
                   enrichVars, dbcall, backoffVars, limitVars, unitVars>>

\* discoverFromJson(filePath) is called on a file holding an array of rows: the
\* rows are parsed and merged
BeginDiscoverJson ==
    /\ dpc = "off"
    /\ \E rows \in FileInputs :
          /\ dinput' = rows
          /\ dtodo' = mergeDiscoverRows(parseRows(rows))
    /\ dflow' = "json"
    /\ dpc' = "run"
    /\ ddone' = {}
    /\ dsum' = NoDiscoverSummary
    /\ lookups' = <<>>
    /\ UNCHANGED <<channelRepo, videoRepo, thumbnailRepo, listing, now, phase, runs,
                   params, pc, task, acc, channelsProcessed, summary, pre, rerun, writes, lost,
                   enrichVars, dbcall, backoffVars, limitVars, unitVars>>

\* One handle is processed: the body of the for loop of discoverFromHandles (in
\* input order), or one task of discoverFromJson (the pLimit(8) tasks settle in
\* any order).  fault "api": getChannelByHandle throws; "upsert": the insert of
\* upsertFromApi throws.  catches = FALSE is the body without its try / catch
discoverOne(i, catches) ==
    /\ dpc = "run"
    /\ i \in DOMAIN dtodo \ ddone
    /\ dflow = "handles" => \A k \in DOMAIN dtodo \ ddone : i <= k
    /\ LET e == dtodo[i]
           h == IF dflow = "json" THEN normHandle(e.handle) ELSE e.handle
           item == getChannelByHandle(h)
       IN IF h = <<>>
          THEN UNCHANGED <<channelRepo, dsum, lookups, dpc>>
          ELSE /\ lookups' = Append(lookups, h)
               /\ \E fault \in {"none", "api", "upsert"} :
                     /\ fault = "upsert" => item # NoItem
                     /\ IF fault # "none"
                        THEN /\ IF catches
                                THEN /\ dsum' = [dsum EXCEPT !.errors =
                                               Append(@, [handle |-> h, error |-> fault])]
                                     /\ UNCHANGED dpc
                                ELSE /\ dpc' = "threw"
                                     /\ UNCHANGED dsum
                             /\ UNCHANGED channelRepo
                        ELSE IF item = NoItem
                        THEN /\ dsum' = [dsum EXCEPT !.notFound = Append(@, h)]
                             /\ UNCHANGED <<channelRepo, dpc>>
                        ELSE /\ channelRepo' =
                                  upsertFromApi(channelRepo, item, h,
                                      IF dflow = "json"
                                      THEN [country |-> e.country,
                                            categories |-> e.categories]
                                      ELSE NoOverrides)
                             /\ dsum' = [dsum EXCEPT
                                   !.mappings = Append(@, [handle |-> h,
                                                           channelId |-> item.id]),
                                   !.upserts = @ + 1]
                             /\ UNCHANGED dpc
    /\ ddone' = ddone \cup {i}
    /\ UNCHANGED <<videoRepo, thumbnailRepo, listing, now, phase, runs,
                   params, pc, task, acc, channelsProcessed, summary, pre, rerun, writes, lost,
                   enrichVars, dbcall, backoffVars, limitVars, unitVars,
                   dflow, dinput, dtodo>>

DiscoverOneNoCatch(i) == discoverOne(i, FALSE)

DiscoverOne(i) == discoverOne(i, TRUE)

\* the loop is over (all tasks settled): the DiscoverSummary is returned
EndDiscover ==
    /\ dpc = "run"
    /\ ddone = DOMAIN dtodo
    /\ dpc' = "returned"
    /\ dsum' = [dsum EXCEPT !.handlesProcessed = Len(dtodo),
                            !.resolved = Len(dsum.mappings)]
    /\ UNCHANGED <<channelRepo, videoRepo, thumbnailRepo, listing, now, phase, runs,
                   params, pc, task, acc, channelsProcessed, summary, pre, rerun, writes, lost,
                   enrichVars, dbcall, backoffVars, limitVars, unitVars,
                   dflow, dinput, dtodo, ddone, lookups>>

NextDiscover ==
    \/ BeginDiscoverHandles
    \/ BeginDiscoverJson
    \/ \E i \in 1..MaxRows : DiscoverOne(i)
    \/ EndDiscover

SpecDiscover == InitDiscover /\ [][NextDiscover]_vars

-----------------------------------------------------------------------------
(* withBackoff(fn, maxRetries): the retry loop around every platform request *)

MaxRetriesArg == 5         \* largest maxRetries tried
defaultMaxRetries == 5     \* maxRetries = 5
baseDelayMs == 500         \* let delay = 500
maxDelayMs == 8000         \* Math.min(delay * 2, 8000)

\* what a failed attempt carries: the HTTP status of err.response, NoStatus when
\* the error has no response (network error, timeout)
NoStatus == 0
Statuses == {403, 429, 500, NoStatus}

shouldRetryInclusive(status, att, maxR) ==
    (status = 403 \/ status = 429) /\ att <= maxR

shouldRetryAnyStatus(status, att, maxR) == att < maxR

\* (status === 403 || status === 429) && attempt < maxRetries
shouldRetry(status, att, maxR) ==
    (status = 403 \/ status = 429) /\ att < maxR

\* withBackoff is called, with the default or an explicit maxRetries
InitBackoff ==
    /\ channelRepo = <<>>
    /\ videoRepo = <<>>
    /\ thumbnailRepo = {}
    /\ imageFiles = {}
    /\ thumbnailRows = <<>>
    /\ listing = [c \in Channels |-> <<>>]
    /\ now = Clock0
    /\ phase = "idle"
    /\ runs = 0
    /\ params = NoParams
    /\ pc = [c \in Channels |-> "off"]
    /\ task = [c \in Channels |-> NoTask]
    /\ acc = [videosSeen |-> 0, rowsUpserted |-> 0]
    /\ channelsProcessed = 0
    /\ summary = PendingSummary
    /\ pre = channelRepo
    /\ rerun = NoRerun
    /\ writes = [c \in Channels |-> <<>>]
    /\ lost = {}
    /\ enrichIdle
    /\ dbcall = NoDbCall
    /\ discoverIdle
    /\ limitIdle
    /\ unitIdle
    /\ maxRetries \in 0..MaxRetriesArg
    /\ attempt = 0
    /\ delay = baseDelayMs
    /\ fnCalls = 0
    /\ bpc = "call"
    /\ berr = NoStatus

\* 'return await fn()': the request succeeds
FnResolves ==
    /\ bpc = "call"
    /\ fnCalls' = fnCalls + 1
    /\ bpc' = "returned"
    /\ UNCHANGED <<channelRepo, videoRepo, thumbnailRepo, listing, now, phase, runs,
                   params, pc, task, acc, channelsProcessed, summary, pre, rerun, writes, lost,
                   enrichVars, dbcall, discoverVars, limitVars, unitVars,
                   maxRetries, attempt, delay, berr>>

\* the request fails and the catch block decides: sleep and retry, or rethrow
FnRejects(status) ==
    /\ bpc = "call"
    /\ fnCalls' = fnCalls + 1
    /\ berr' = status
    /\ bpc' = IF shouldRetry(status, attempt, maxRetries) THEN "sleep" ELSE "threw"
    /\ UNCHANGED <<channelRepo, videoRepo, thumbnailRepo, listing, now, phase, runs,
                   params, pc, task, acc, channelsProcessed, summary, pre, rerun, writes, lost,
                   enrichVars, dbcall, discoverVars, limitVars, unitVars,
                   maxRetries, attempt, delay>>

\* the timer of delay ms fires: delay doubled up to the cap, attempt++, continue
Wake ==
    /\ bpc = "sleep"
    /\ delay' = Min(delay * 2, maxDelayMs)
    /\ attempt' = attempt + 1
    /\ bpc' = "call"
    /\ UNCHANGED <<channelRepo, videoRepo, thumbnailRepo, listing, now, phase, runs,
                   params, pc, task, acc, channelsProcessed, summary, pre, rerun, writes, lost,
                   enrichVars, dbcall, discoverVars, limitVars, unitVars,
                   maxRetries, fnCalls, berr>>

NextBackoff ==
    \/ FnResolves
    \/ \E status \in Statuses : FnRejects(status)
    \/ Wake

\* the request settles (the HTTP client has a timeout) and the timer fires
SpecBackoff == InitBackoff /\ [][NextBackoff]_vars /\ WF_vars(NextBackoff)

-----------------------------------------------------------------------------
(* The limiters of ingestChannelsByIds and processVideoIds: channelLimit =      *)
(* pLimit(3) and chunkLimit = pLimit(6), one of each per pass, and perVideo =   *)
(* pLimit(10), one per processVideoIds call.  A limiter starts a queued          *)
(* function only while fewer than its number are running, the one that has      *)
(* waited longest first.                                                        *)

MaxLimitChannels == 4    \* channels given to the pass
MaxChunks == 3           \* chunks of the channel with the longest listing
MaxChunkItems == 11      \* items getVideos returns for the largest chunk

chunkLimitN == 6
perVideoLimitN == 10

LimitChannels == 1..MaxLimitChannels

\* the chunk tasks the listing of channel c leads to: the number of items
\* getVideos returns for each chunk
chunkItems(c) ==
    IF c = 1 THEN [n \in 1..MaxChunks |-> IF n = 1 THEN MaxChunkItems ELSE 0]
    ELSE IF c < MaxLimitChannels THEN [n \in 1..(MaxChunks - 1) |-> 0]
    ELSE <<>>

\* a chunk task: queued on chunkLimit, then in getVideos, then its per-video
\* tasks (todo: queued on perVideo, active: running), then settled
queuedChunk(items) == [st |-> "queued", todo |-> items, active |-> 0]

\* functions running on channelLimit, on chunkLimit, and per-video tasks running
channelsRunning == {c \in DOMAIN chState : chState[c] \in {"running", "chunks"}}
chunksRunning ==
    {p \in (DOMAIN chunkState) \X (1..MaxChunks) :
        /\ p[2] \in DOMAIN chunkState[p[1]]
        /\ chunkState[p[1]][p[2]].st \in {"getVideos", "perVideo"}}

\* ingestChannelsByIds is called: every channel's task is queued on channelLimit
InitLimits ==
    /\ channelRepo = <<>>
    /\ videoRepo = <<>>
    /\ thumbnailRepo = {}
    /\ imageFiles = {}
    /\ thumbnailRows = <<>>
    /\ listing = [c \in Channels |-> <<>>]
    /\ now = Clock0
    /\ phase = "idle"
    /\ runs = 0
    /\ params = NoParams
    /\ pc = [c \in Channels |-> "off"]
    /\ task = [c \in Channels |-> NoTask]
    /\ acc = [videosSeen |-> 0, rowsUpserted |-> 0]
    /\ channelsProcessed = 0
    /\ summary = PendingSummary
    /\ pre = channelRepo
    /\ rerun = NoRerun
    /\ writes = [c \in Channels |-> <<>>]
    /\ lost = {}
    /\ enrichIdle
    /\ dbcall = NoDbCall
    /\ discoverIdle
    /\ backoffIdle
    /\ unitIdle
    /\ chState = [c \in LimitChannels |-> "queued"]
    /\ chunkState = [c \in LimitChannels |-> <<>>]
    /\ chunkQueue = <<>>

\* channelLimit starts the task of channel c, the first of the input still waiting
ChannelTaskStarts(c) ==
    /\ chState[c] = "queued"
    /\ \A d \in LimitChannels : d < c => chState[d] # "queued"
    /\ Cardinality(channelsRunning) < channelLimitN
    /\ chState' = [chState EXCEPT ![c] = "running"]
    /\ UNCHANGED <<catalogVars, videoRepo, thumbnailRepo, enrichVars, dbcall,
                   discoverVars, backoffVars, unitVars, chunkState, chunkQueue>>

\* listUploadsSince has returned: the chunk tasks of c are queued on chunkLimit
ChunksQueued(c) ==
    /\ chState[c] = "running"
    /\ chState' = [chState EXCEPT ![c] = "chunks"]
    /\ chunkState' = [chunkState EXCEPT ![c] =
            [n \in DOMAIN chunkItems(c) |-> queuedChunk(chunkItems(c)[n])]]
    /\ chunkQueue' = chunkQueue \o [n \in DOMAIN chunkItems(c) |-> <<c, n>>]
    /\ UNCHANGED <<catalogVars, videoRepo, thumbnailRepo, enrichVars, dbcall,
                   discoverVars, backoffVars, unitVars>>

\* chunkLimit starts chunk task n of channel c: processVideoIds calls getVideos.
\* limited = FALSE is a chunkLimit that never makes a task wait
chunkTaskStarts(c, n, limited) ==
    /\ chState[c] = "chunks"
    /\ n \in DOMAIN chunkState[c]
    /\ chunkState[c][n].st = "queued"
    /\ chunkQueue # <<>>
    /\ Head(chunkQueue) = <<c, n>>
    /\ limited => Cardinality(chunksRunning) < chunkLimitN
    /\ chunkState' = [chunkState EXCEPT ![c][n].st = "getVideos"]
    /\ chunkQueue' = Tail(chunkQueue)
    /\ UNCHANGED <<catalogVars, videoRepo, thumbnailRepo, enrichVars, dbcall,
                   discoverVars, backoffVars, unitVars, chState>>

ChunkTaskStartsUnlimited(c, n) == chunkTaskStarts(c, n, FALSE)

ChunkTaskStarts(c, n) == chunkTaskStarts(c, n, TRUE)

\* getVideos returns: one task per item is queued on a new perVideo limiter
GetVideosReturns(c, n) ==
    /\ n \in DOMAIN chunkState[c]
    /\ chunkState[c][n].st = "getVideos"
    /\ chunkState' = [chunkState EXCEPT ![c][n].st = "perVideo"]
    /\ UNCHANGED <<catalogVars, videoRepo, thumbnailRepo, enrichVars, dbcall,
                   discoverVars, backoffVars, unitVars, chState, chunkQueue>>

\* perVideo starts the task of one more item of the chunk
PerVideoStarts(c, n) ==
    /\ n \in DOMAIN chunkState[c]
    /\ chunkState[c][n].st = "perVideo"
    /\ chunkState[c][n].todo > 0
    /\ chunkState[c][n].active < perVideoLimitN
    /\ chunkState' = [chunkState EXCEPT ![c][n].todo = @ - 1,
                                        ![c][n].active = @ + 1]
    /\ UNCHANGED <<catalogVars, videoRepo, thumbnailRepo, enrichVars, dbcall,
                   discoverVars, backoffVars, unitVars, chState, chunkQueue>>

\* a per-video task settles (its upsert succeeded, or failed and was logged)
PerVideoSettles(c, n) ==
    /\ n \in DOMAIN chunkState[c]
    /\ chunkState[c][n].st = "perVideo"
    /\ chunkState[c][n].active > 0
    /\ chunkState' = [chunkState EXCEPT ![c][n].active = @ - 1]
    /\ UNCHANGED <<catalogVars, videoRepo, thumbnailRepo, enrichVars, dbcall,
                   discoverVars, backoffVars, unitVars, chState, chunkQueue>>

\* Promise.allSettled of the per-video tasks resolves: the chunk task settles
ChunkTaskSettles(c, n) ==
    /\ n \in DOMAIN chunkState[c]
    /\ chunkState[c][n].st = "perVideo"
    /\ chunkState[c][n].todo = 0
    /\ chunkState[c][n].active = 0
    /\ chunkState' = [chunkState EXCEPT ![c][n].st = "settled"]
    /\ UNCHANGED <<catalogVars, videoRepo, thumbnailRepo, enrichVars, dbcall,
                   discoverVars, backoffVars, unitVars, chState, chunkQueue>>

\* Promise.allSettled(chunkTasks) resolves: the task of channel c ends
ChannelTaskSettles(c) ==
    /\ chState[c] = "chunks"
    /\ \A n \in DOMAIN chunkState[c] : chunkState[c][n].st = "settled"
    /\ chState' = [chState EXCEPT ![c] = "settled"]
    /\ UNCHANGED <<catalogVars, videoRepo, thumbnailRepo, enrichVars, dbcall,
                   discoverVars, backoffVars, unitVars, chunkState, chunkQueue>>

NextLimits ==
    \/ \E c \in LimitChannels : ChannelTaskStarts(c)
    \/ \E c \in LimitChannels : ChunksQueued(c)
    \/ \E c \in LimitChannels, n \in 1..MaxChunks : ChunkTaskStarts(c, n)
    \/ \E c \in LimitChannels, n \in 1..MaxChunks : GetVideosReturns(c, n)
    \/ \E c \in LimitChannels, n \in 1..MaxChunks : PerVideoStarts(c, n)
    \/ \E c \in LimitChannels, n \in 1..MaxChunks : PerVideoSettles(c, n)
    \/ \E c \in LimitChannels, n \in 1..MaxChunks : ChunkTaskSettles(c, n)
    \/ \E c \in LimitChannels : ChannelTaskSettles(c)

SpecLimits == InitLimits /\ [][NextLimits]_vars

-----------------------------------------------------------------------------
(* Single functions, called on their own with arguments from bounded sets *)

MaxCallListing == 3      \* items in the playlist given to listUploadsSince
MaxPageLen == 2          \* items per playlistItems page
MaxVideosArg == 2        \* largest maxVideos given
MaxViews == 2            \* largest view count given
MaxSubscribers == 2      \* largest subscriber count given

Playlists ==
    UNION {SeqsNoRep({v \in VideoIds : channelOf(v) = c}, MaxCallListing) : c \in Channels}
AfterIsos == {toISOString(Clock0 - defaultWindowSec),
              toISOString(publishedSecOf("v2")),
              apiIso(publishedSecOf("v3"))}

InitCalls ==
    /\ channelRepo = <<>>
    /\ videoRepo = <<>>
    /\ thumbnailRepo = {}
    /\ imageFiles = {}
    /\ thumbnailRows = <<>>
    /\ listing = [c \in Channels |-> <<>>]
    /\ now = Clock0
    /\ phase = "idle"
    /\ runs = 0
    /\ params = NoParams
    /\ pc = [c \in Channels |-> "off"]
    /\ task = [c \in Channels |-> NoTask]
    /\ acc = [videosSeen |-> 0, rowsUpserted |-> 0]
    /\ channelsProcessed = 0
    /\ summary = PendingSummary
    /\ pre = channelRepo
    /\ rerun = NoRerun
    /\ writes = [c \in Channels |-> <<>>]
    /\ lost = {}
    /\ enrichIdle
    /\ dbcall = NoDbCall
    /\ discoverIdle
    /\ backoffIdle
    /\ limitIdle
    /\ pageLen \in 1..MaxPageLen
    /\ call = NoCall

\* yt.listUploadsSince(playlist, {publishedAfterIso, maxVideos}); maxVideos = 0
\* stands for none given
CallListUploadsSince ==
    /\ \E pl \in Playlists, afterIso \in AfterIsos, maxVideos \in 0..MaxVideosArg :
          call' = [fn |-> "listUploadsSince", playlist |-> pl,
                   publishedAfterIso |-> afterIso, maxVideos |-> maxVideos,
                   result |-> listUploadsSince(pl, afterIso, maxVideos)]
    /\ UNCHANGED <<catalogVars, videoRepo, thumbnailRepo, enrichVars, dbcall,
                   discoverVars, backoffVars, limitVars, pageLen>>

\* computeEngagement(views, subscribers)
CallComputeEngagement ==
    /\ \E views \in -1..MaxViews, subscribers \in -1..MaxSubscribers :
          call' = [fn |-> "computeEngagement", views |-> views,
                   subscribers |-> subscribers,
                   result |-> computeEngagement(views, subscribers)]
    /\ UNCHANGED <<catalogVars, videoRepo, thumbnailRepo, enrichVars, dbcall,
                   discoverVars, backoffVars, limitVars, pageLen>>

\* upsertFromYoutubeItem(v, {channelId, channelSubscribers}) on a /videos item
\* with the given statistics.viewCount: the row replaces the one of its videoId
CallUpsertFromYoutubeItem ==
    /\ \E v \in {"v1"}, views \in 0..MaxViews, subscribers \in -1..MaxSubscribers :
          /\ videoRepo' =
                [w \in DOMAIN videoRepo \cup {v} |->
                    IF w = v
                    THEN upsertFromYoutubeItem([apiVideo(v) EXCEPT !.viewCount = views],
                                               channelOf(v), subscribers)
                    ELSE videoRepo[w]]
          /\ call' = [fn |-> "upsertFromYoutubeItem", videoId |-> v, views |-> views,
                      subscribers |-> subscribers]
    /\ UNCHANGED <<catalogVars, thumbnailRepo, enrichVars, dbcall,
                   discoverVars, backoffVars, limitVars, pageLen>>

NextCalls ==
    \/ CallListUploadsSince
    \/ CallComputeEngagement
    \/ CallUpsertFromYoutubeItem

SpecCalls == InitCalls /\ [][NextCalls]_vars

-----------------------------------------------------------------------------
(* ExportService.exportThumbnailsFromDb: the Thumbnail table is read in batches *)
(* (keyset on videoId) and appended to a CSV and a JSONL file.  A file is the   *)
(* sequence of its lines; a CSV line is the sequence of its cells.              *)

MaxBatchSize == 2        \* largest batchSize given

\* csvHeaders (the columns kept by the model)
csvHeaders == <<"videoId", "channelId", "publishedAt", "split">>

\* toCsvRow(t)
toCsvRow(t) == <<t.videoId, t.channelId, t.publishedAt, t.split>>

\* toJsonlRecord(t)
toJsonlRecord(t) ==
    [videoId |-> t.videoId, channelId |-> t.channelId, publishedAt |-> t.publishedAt,
     ocr |-> [charCount |-> t.ocr_charCount, areaPct |-> t.ocr_areaPct],
     engagementScore |-> t.engagementScore, split |-> t.split]

\* ORDER BY t.videoId ASC
RECURSIVE orderByVideoId(_)
orderByVideoId(S) ==
    IF S = {} THEN <<>>
    ELSE LET first == CHOOSE v \in S : \A w \in S : idOrd(v) <= idOrd(w)
         IN <<first>> \o orderByVideoId(S \ {first})

\* the WHERE clause of one batch: the keyset condition once lastId is set, the
\* channel filter when channelIds is not empty, the publishedAt filter (on the
\* ISO text of the column) when publishedAfter is given
exportWhere(v, options, lastId) ==
    /\ lastId # NullStr => idOrd(v) > idOrd(lastId)
    /\ options.channelIds # {} => thumbnailRows[v].channelId \in options.channelIds
    /\ options.publishedAfter # NullIso =>
          IsoGE(thumbnailRows[v].publishedAt, options.publishedAfter)

\* qb.getRawAndEntities(): with a join and take() the entities are limited to
\* batchSize by the two-step read
exportBatch(options, lastId) ==
    LET matched == orderByVideoId({v \in thumbnailRepo : exportWhere(v, options, lastId)})
    IN [k \in 1..Min(Len(matched), options.batchSize) |-> thumbnailRows[matched[k]]]

ExportOptions ==
    [batchSize : 1..MaxBatchSize,
     channelIds : {{}, {"c1"}},
     publishedAfter : {NullIso, toISOString(publishedSecOf("v2"))}]

\* the Thumbnail table to export: any subset of the videos, each with its row
InitExport ==
    /\ catalogIdle
    /\ videoRepo = [v \in VideoIds |->
                       upsertFromYoutubeItem(apiVideo(v), channelOf(v),
                                             subscribersOf(channelOf(v)))]
    /\ thumbnailRepo \in SUBSET VideoIds
    /\ imageFiles = thumbnailRepo
    /\ thumbnailRows = [v \in thumbnailRepo |-> thumbnailRowOf(v, ocrBasic(FALSE))]
    /\ enrichIdle
    /\ dbcall = NoDbCall
    /\ discoverIdle
    /\ backoffIdle
    /\ limitIdle
    /\ unitIdle

\* exportThumbnailsFromDb(options) is called: both files are removed, the CSV
\* header is written, total = 0, lastId = null
CallExportThumbnailsFromDb ==
    /\ call = NoCall \/ (call.fn = "exportThumbnailsFromDb" /\ call.pc = "returned")
    /\ \E options \in ExportOptions :
          call' = [fn |-> "exportThumbnailsFromDb", options |-> options, pc |-> "loop",
                   total |-> 0, lastId |-> NullStr, csv |-> <<csvHeaders>>,
                   jsonl |-> <<>>, rows |-> 0]
    /\ UNCHANGED <<catalogVars, videoRepo, thumbnailRepo, enrichVars, dbcall,
                   discoverVars, backoffVars, limitVars, pageLen>>

\* one turn of the for (;;) loop on a batch that is not empty: total and lastId
\* are set, the lines are appended to both files, total and lastId are set again
ExportBatch ==
    /\ call.fn = "exportThumbnailsFromDb"
    /\ call.pc = "loop"
    /\ LET rows == exportBatch(call.options, call.lastId)
           total1 == call.total + Len(rows)
           csvLines == [k \in DOMAIN rows |-> toCsvRow(rows[k])]
           jsonlLines == [k \in DOMAIN rows |-> toJsonlRecord(rows[k])]
           total2 == total1 + Len(rows)
       IN /\ Len(rows) # 0
          /\ call' = [call EXCEPT !.total = total2,
                                  !.lastId = rows[Len(rows)].videoId,
                                  !.csv = @ \o csvLines,
                                  !.jsonl = @ \o jsonlLines]
    /\ UNCHANGED <<catalogVars, videoRepo, thumbnailRepo, enrichVars, dbcall,
                   discoverVars, backoffVars, limitVars, pageLen>>

\* the batch is empty: the loop breaks and {csvPath, jsonlPath, rows: total} is
\* returned
ExportReturns ==
    /\ call.fn = "exportThumbnailsFromDb"
    /\ call.pc = "loop"
    /\ Len(exportBatch(call.options, call.lastId)) = 0
    /\ call' = [call EXCEPT !.pc = "returned", !.rows = call.total]
    /\ UNCHANGED <<catalogVars, videoRepo, thumbnailRepo, enrichVars, dbcall,
                   discoverVars, backoffVars, limitVars, pageLen>>

NextExport ==
    \/ CallExportThumbnailsFromDb
    \/ ExportBatch
    \/ ExportReturns

SpecExport == InitExport /\ [][NextExport]_vars

-----------------------------------------------------------------------------
(* refineVision(v, hints): post-processing of the vision service's answer.      *)
(* Fractions are whole percents (conf, palette pct, contrast) or per mille       *)
(* (faces.largest.areaPct); a text is a sequence of words.                       *)

MaxRaw == 2              \* raw detections in one payload

NoSize == [width |-> 0, height |-> 0]       \* v.imageSize undefined
NoFaces == [count |-> -1, largestPermille |-> 0]   \* v.faces undefined
NoContrast == -1                              \* v.contrast undefined

\* add to a Set kept in insertion order
addTag(tags, t) == IF t \in Range(tags) THEN tags ELSE Append(tags, t)

\* new Set<string>(list)
RECURSIVE newSet(_)
newSet(list) ==
    IF list = <<>> THEN <<>>
    ELSE addTag(newSet(SubSeq(list, 1, Len(list) - 1)), list[Len(list)])

\* String.prototype.toUpperCase on the words met here
toUpperCase(w) ==
    CASE w = "cash"   -> "CASH"
      [] w = "cashew" -> "CASHEW"
      [] OTHER        -> w

\* /\$|€|£/.test(t) || /\b(MONEY|CASH|MILLION|BILLION|USD|EUR|GBP|...)\b/.test(t)
mentionsMoney(words) ==
    \E i \in DOMAIN words :
        \/ toUpperCase(words[i]) \in {"$5", "$", "€", "£"}
        \/ toUpperCase(words[i]) \in {"MONEY", "CASH", "MILLION", "BILLION",
                                      "USD", "EUR", "GBP"}

\* the warm check on one palette entry: hex of six digits, r > 180, g > 80,
\* b < 100, r > g > b, and at least 12% of the image
warmTopEntry(p) ==
    /\ p.hexLen = 6
    /\ p.r > 180 /\ p.g > 80 /\ p.b < 100 /\ p.r > p.g /\ p.g > p.b
    /\ p.pct >= 12

refineVision(v, hints) ==
    LET width      == IF v.imageSize = NoSize THEN 1 ELSE v.imageSize.width
        height     == IF v.imageSize = NoSize THEN 1 ELSE v.imageSize.height
        imgArea    == width * height
        \* r.conf >= 0.5 && (r.box.w * r.box.h) / imgArea >= 0.002
        kept(r)    == r.conf >= 50 /\ r.w * r.h * 1000 >= 2 * imgArea
        raw        == SelectSeq(v.raw, kept)
        names      == {raw[i].name : i \in DOMAIN raw}
        veh        == {"car", "bus", "truck", "motorcycle", "train"}
        tags0      == newSet(v.tags)
        tags1      == IF \E i \in DOMAIN raw : raw[i].name \in veh
                      THEN addTag(tags0, "car") ELSE tags0
        tags2      == IF "person" \in names THEN addTag(tags1, "person") ELSE tags1
        faceCount  == IF v.faces = NoFaces THEN 0 ELSE v.faces.count
        largestPct == IF v.faces = NoFaces THEN 0 ELSE v.faces.largestPermille
        tags3      == IF faceCount > 0 /\ largestPct >= 80
                      THEN addTag(tags2, "portrait") ELSE tags2
        t          == hints.title \o hints.ocrText
        tags4      == IF mentionsMoney(t) THEN addTag(tags3, "money") ELSE tags3
        warmTop    == \E i \in DOMAIN v.palette : warmTopEntry(v.palette[i])
        contrast   == IF v.contrast = NoContrast THEN 0 ELSE v.contrast
        tags       == IF warmTop /\ contrast >= 18 THEN addTag(tags4, "fire") ELSE tags4
    IN [tags |-> tags, raw |-> raw, faces_count |-> faceCount,
        faces_largest_areaPct |-> largestPct, contrast |-> v.contrast]

\* detections the vision service may report: [name, conf %, box w, box h]
box(name, conf, w, h) == [name |-> name, conf |-> conf, w |-> w, h |-> h]
BoxPool == {box("bus", 50, 2, 10), box("bus", 49, 20, 20), box("bus", 90, 1, 1),
            box("car", 90, 20, 20), box("person", 90, 20, 20),
            box("train", 49, 1, 1)}
RawLists == UNION {[1..k -> BoxPool] : k \in 0..MaxRaw}
ImageSizes == {NoSize, [width |-> 100, height |-> 100]}
TagLists == {<<>>, <<"car">>, <<"vehicle", "dog">>}

\* the rest of a payload, with its hints: nothing, a portrait, a money word in the
\* title, a warm palette with contrast
plainRest == [faces |-> NoFaces, palette |-> <<>>, contrast |-> NoContrast,
              title |-> <<"hello">>, ocrText |-> <<>>]
RestPool ==
    {plainRest,
     [plainRest EXCEPT !.faces = [count |-> 1, largestPermille |-> 80]],
     [plainRest EXCEPT !.title = <<"cashew">>, !.ocrText = <<"cash">>],
     [plainRest EXCEPT !.palette = <<[hexLen |-> 6, r |-> 200, g |-> 120, b |-> 40,
                                      pct |-> 12]>>,
                       !.contrast = 18]}

InitVision ==
    /\ InitCalls
    /\ pageLen = PageLen

CallRefineVision ==
    /\ \E raw \in RawLists, size \in ImageSizes, tags \in TagLists, rest \in RestPool :
          LET v == [imageSize |-> size, raw |-> raw, tags |-> tags,
                    faces |-> rest.faces, palette |-> rest.palette,
                    contrast |-> rest.contrast]
              hints == [title |-> rest.title, ocrText |-> rest.ocrText]
          IN call' = [fn |-> "refineVision", v |-> v, hints |-> hints,
                      result |-> refineVision(v, hints)]
    /\ UNCHANGED <<catalogVars, videoRepo, thumbnailRepo, enrichVars, dbcall,
                   discoverVars, backoffVars, limitVars, pageLen>>

NextVision ==
    \/ CallRefineVision

SpecVision == InitVision /\ [][NextVision]_vars

-----------------------------------------------------------------------------
(* Observations used by the properties *)

\* the pass has returned
Returned == phase = "idle" /\ runs > 0

\* channel c was given to the pass, has a row, and its task ended in state st
EndedWith(c, st) ==
    /\ c \in params.input
    /\ pc[c] = "settled"
    /\ task[c].hasRow
    /\ writes[c] # <<>>
    /\ writes[c][Len(writes[c])] = st

\* channel c was skipped for its missing uploads pointer
Skipped(c) ==
    /\ c \in params.input
    /\ pc[c] = "settled"
    /\ task[c].hasRow
    /\ task[c].uploadsPlaylistId = NullStr

\* the playlist is ordered newest first
NewestFirst(pl) ==
    \A i, j \in DOMAIN pl : i < j => publishedSecOf(pl[i]) >= publishedSecOf(pl[j])

-----------------------------------------------------------------------------
(* C1: once ingestChannelsByIds has returned, no channel of its input has
   scrapeStatus = running, whatever happened to the channel (listed, listing
   threw, chunks failed, skipped). *)
C1_NoChannelLeftRunning ==
    Returned =>
        \A c \in params.input \cap DOMAIN channelRepo :
            channelRepo[c].scrapeStatus # "running"

(* C2: a channel skipped for its missing uploads pointer keeps the scrapeStatus,
   scrapeError, lastIngestAt and lastVideoPublishedAt it had before the pass, and
   is not counted in channelsProcessed. *)
C2_SkippedChannelUntouched ==
    Returned =>
        /\ \A c \in Channels : Skipped(c) => channelRepo[c] = pre[c]
        /\ summary.channelsProcessed
              <= Cardinality({c \in params.input : ~Skipped(c)})

(* C3: within one pass the scrapeStatus writes of a channel are: first running,
   then exactly one of done / error; nothing is set to done or error without
   running before it.  At the return the sequence of writes is complete. *)
C3_StatusWritesRunningThenFinal ==
    \A c \in Channels :
        /\ writes[c] \in {<<>>, <<"running">>, <<"running", "done">>,
                          <<"running", "error">>}
        /\ (Returned /\ writes[c] # <<>>) => Len(writes[c]) = 2

(* C4: a pass that ends a channel with done leaves its lastVideoPublishedAt
   unchanged or strictly later than it was before the pass. *)
C4_WatermarkNeverMovesBack ==
    \A c \in Channels :
        EndedWith(c, "done") =>
            channelRepo[c].lastVideoPublishedAt >= pre[c].lastVideoPublishedAt

(* C5: when a pass moves a channel's watermark to W, every video of the channel's
   listing published between the pass's lower bound and W is among the items of
   the pages the pass fetched. *)
C5_WatermarkNotPastUnseen ==
    \A c \in Channels :
        (/\ phase = "catalog"
         /\ EndedWith(c, "done")
         /\ channelRepo[c].lastVideoPublishedAt # pre[c].lastVideoPublishedAt)
        => \A v \in Range(listing[c]) :
              (/\ IsoGE(apiIso(publishedSecOf(v)), task[c].afterIso)
               /\ publishedSecOf(v) <= channelRepo[c].lastVideoPublishedAt)
              => v \in observedBy(listing[c], task[c].pagesFetched)

(* C6: when an exception escapes the per-channel work (it reaches the catch
   block), the channel ends with scrapeStatus = error, scrapeError = the
   exception detail, and lastVideoPublishedAt and lastIngestAt as before. *)
C6_EscapedExceptionMarksError ==
    \A c \in Channels :
        (pc[c] = "settled" /\ task[c].hasRow /\ task[c].caught # NullStr)
        => /\ channelRepo[c].scrapeStatus = "error"
           /\ channelRepo[c].scrapeError = task[c].caught
           /\ channelRepo[c].lastVideoPublishedAt = pre[c].lastVideoPublishedAt
           /\ channelRepo[c].lastIngestAt = pre[c].lastIngestAt

\* a listing exception in a pass over a channel that an earlier pass had finished
C6_Witness ==
    \E c \in Channels :
        /\ pc[c] = "settled" /\ task[c].hasRow /\ task[c].caught # NullStr
        /\ pre[c].lastIngestAt # NullTime
        /\ pre[c].lastVideoPublishedAt # NullTime
        /\ pre[c].scrapeStatus = "done"

(* C7: a video collected by a pass whose hydration or upsert failed is upserted
   by re-running the pass.  Stated on the state a healthy re-run without override
   and without cap leaves, the video still being in the (newest-first) listing
   and the channel ended with done: the video has a Video row, or it is still
   inside the window of the next pass (at or after watermark - overlap), so that
   the next re-run collects it. *)
C7_FailedVideoUpsertedByRerun ==
    (/\ Returned
     /\ params.healthy
     /\ params.publishedAfter = NoOverride
     /\ params.maxVideosPerChannel = NoCap)
    => \A v \in lost :
          (/\ EndedWith(channelOf(v), "done")
           /\ NewestFirst(listing[channelOf(v)])
           /\ v \in Range(listing[channelOf(v)]))
          => \/ v \in DOMAIN videoRepo
             \/ IsoGE(apiIso(publishedSecOf(v)),
                      computePublishedAfter(TRUE, channelRepo[channelOf(v)], NoOverride))

\* a page has just been returned by selectEligiblePage
JustSelected == phase = "enrich" /\ epc = "enrich" /\ settled = {}

\* all rows of the pages of the run so far, in the order they were returned
RECURSIVE Flatten(_)
Flatten(ps) == IF ps = <<>> THEN <<>> ELSE Head(ps) \o Flatten(Tail(ps))

(* C8: a video that has a Thumbnail row is in no page selectEligiblePage returns,
   be it the first page or a page selected with a cursor, in any run. *)
C8_EnrichedNeverSelected ==
    JustSelected => \A i \in DOMAIN page : page[i].videoId \notin thumbnailRepo

(* C9: every row of a page returned by selectEligiblePage, without or with a
   cursor, satisfies the whole eligibility predicate (not short, 720p+, no
   Thumbnail row, published within sinceDays, engagement > 0.7). *)
C9_PageRowsEligible ==
    JustSelected => \A i \in DOMAIN page : Eligible(page[i].videoId)

(* C10: the pages of a run walk the eligible videos in keyset order: every page
   has at most pageSize rows; the rows of all pages are strictly ascending in
   (publishedAt, videoId); after a page the cursor is its last row; and when the
   set of eligible videos stayed what it was at the call, the finished run has
   listed every one of them exactly once. *)
C10_PagesKeysetWalk ==
    LET all == Flatten(pages)
    IN /\ \A k \in DOMAIN pages : Len(pages[k]) <= eparams.pageSize
       /\ \A i, j \in DOMAIN all :
             i < j => keyLess(all[i].publishedAt, all[i].videoId,
                              all[j].publishedAt, all[j].videoId)
       /\ (phase = "enrich" /\ epc = "select" /\ pages # <<>>)
             => cursor = [publishedAt |-> all[Len(all)].publishedAt,
                          videoId |-> all[Len(all)].videoId]
       /\ (epc = "done" /\ thumbnailRepo = thumb0)
             => \A v \in elig0 : Cardinality({i \in DOMAIN all : all[i].videoId = v}) = 1

\* the video ids of a page
idsOf(p) == {p[i].videoId : i \in DOMAIN p}

\* the enrichOne task of v failed: it returned early or threw
Failed(v) == v \in DOMAIN outcome /\ outcome[v].result # "upserted"

(* C11: the cursor of a run changes only in a step taken when every enrichOne
   task of the current page has settled; and a run that follows an interrupted
   one (as any run) has, when it returns, listed in its pages every video that
   was eligible (no Thumbnail row, all filters) when it was called. *)
C11_CursorAfterPageNoneLost ==
    /\ [][(phase = "enrich" /\ cursor' # cursor)
             => (page # <<>> /\ settled = idsOf(page))]_vars
    /\ [](epc = "done" => \A v \in elig0 : v \in idsOf(Flatten(pages)))

\* a run was killed, and the next run has returned after enriching every video
\* that was eligible at its call, one of them left with its image file but
\* without a Thumbnail row by the killed run
C11_Witness ==
    /\ interrupted > 0
    /\ epc = "done"
    /\ elig0 # {}
    /\ \A v \in elig0 : v \in thumbnailRepo
    /\ esummary.imagesSaved < esummary.rowsUpserted

(* C12: a failed enrichOne (early return or throw) does not stop the page or
   the run: every other row of the page can still be enriched, the cursor moves
   only over fully settled pages, the finished run has returned its summary, and
   a video whose enrichOne failed has no Thumbnail row. *)
C12_FailureDoesNotAbort ==
    /\ (phase = "enrich" /\ epc = "enrich")
          => \A v \in idsOf(page) \ settled : ENABLED EnrichOne(v)
    /\ (phase = "enrich" /\ epc = "select" /\ pages # <<>>)
          => settled = idsOf(page)
    /\ epc = "done" => esummary.returned
    /\ \A v \in VideoIds : Failed(v) => v \notin thumbnailRepo

(* C13: an enrichOne whose only failure is the OCR upserts the Thumbnail row
   with the empty OCR result (ocr_charCount 0, ocr_areaPct null); an enrichOne
   whose vision analysis fails leaves the Thumbnail table and rowsUpserted as
   they were, and a video that was eligible before it is eligible after it. *)
C13_OcrDegradesVisionPropagates ==
    /\ [](\A v \in DOMAIN outcome :
            outcome[v].faults = {"ocr"}
            => /\ outcome[v].result = "upserted"
               /\ v \in thumbnailRepo
               /\ thumbnailRows[v].ocr_charCount = 0
               /\ thumbnailRows[v].ocr_areaPct = NullPct)
    /\ [][\A v \in DOMAIN outcome' \ DOMAIN outcome :
            "vision" \in outcome'[v].faults
            => /\ thumbnailRepo' = thumbnailRepo
               /\ thumbnailRows' = thumbnailRows
               /\ eacc'.rowsUpserted = eacc.rowsUpserted
               /\ (Eligible(v) => Eligible(v)')]_vars

\* in a later run the OCR fails on a video that an earlier run had downloaded but
\* not enriched, and the row is upserted; the run before it ended
C13_Witness ==
    \E v \in DOMAIN outcome :
        /\ outcome[v].faults = {"ocr"}
        /\ outcome[v].result = "upserted"
        /\ eruns = 2
        /\ v \notin thumb0
        /\ eacc.imagesSaved = 0

\* the order the selection is specified to have: watermark ascending, channels
\* without watermark first, then id ascending
watermarkLess(a, b) ==
    \/ channelRepo[a].lastVideoPublishedAt < channelRepo[b].lastVideoPublishedAt
    \/ (/\ channelRepo[a].lastVideoPublishedAt = channelRepo[b].lastVideoPublishedAt
        /\ chOrd(a) < chOrd(b))

RECURSIVE orderByWatermark(_)
orderByWatermark(S) ==
    IF S = {} THEN <<>>
    ELSE LET m == CHOOSE x \in S : \A y \in S \ {x} : watermarkLess(x, y)
         IN <<m>> \o orderByWatermark(S \ {m})

(* C18: for every status set, id allow-list and limit, listForIngest returns
   the channels whose scrapeStatus is in the status set (when given) and whose id
   is in the allow-list (when given), in the order lastVideoPublishedAt ascending
   with null first, ties by id ascending, cut to limit when limit > 0. *)
C18_ListForIngestByWatermark ==
    \A st \in StatusSets, ids \in IdSets, lim \in Limits :
        LET hit == {c \in DOMAIN channelRepo :
                       /\ st # {} => channelRepo[c].scrapeStatus \in st
                       /\ ids # {} => c \in ids}
            all == orderByWatermark(hit)
        IN listForIngest([statuses |-> st, channelIds |-> ids, limit |-> lim])
             = IF lim > 0 THEN SubSeq(all, 1, Min(lim, Len(all))) ELSE all

(* C19: a runIngestFromDb call whose selection is empty returns the summary with
   channelsProcessed, videosSeen, rowsUpserted and tookSec 0, and its step changes
   no Channel or Video row and starts no channel task (the only place where the
   platform API is called): the service is idle as before. *)
C19_EmptySelectionIsNoOp ==
    [][(dbcall'.n # dbcall.n /\ dbcall'.matched = <<>>)
         => /\ summary' = [channelsProcessed |-> 0, videosSeen |-> 0,
                           rowsUpserted |-> 0, tookSec |-> 0]
            /\ channelRepo' = channelRepo
            /\ videoRepo' = videoRepo
            /\ phase' = "idle"
            /\ pc' = pc
            /\ task' = task
            /\ acc' = acc]_vars

\* after a pass that finished a channel, a selection by status matched no channel
C19_Witness ==
    /\ dbcall.n > 0
    /\ dbcall.matched = <<>>
    /\ dbcall.statuses # {}
    /\ phase = "idle"
    /\ summary.tookSec = 0
    /\ \E c \in DOMAIN channelRepo : channelRepo[c].scrapeStatus = "done"

\* how many entries of seq satisfy P
countOf(seq, P(_)) == Cardinality({i \in DOMAIN seq : P(seq[i])})

\* the largest element of a non-empty set of integers
Max(S) == CHOOSE x \in S : \A y \in S : y <= x

\* the distinct non-empty normalized handles of the argument of the call
inputHandles ==
    IF dflow = "handles"
    THEN {normHandle(dinput[i]) : i \in DOMAIN dinput} \ {<<>>}
    ELSE {normHandle(dinput[i].handle) : i \in DOMAIN dinput} \ {<<>>}

(* C14: discoverFromHandles does not throw because of a handle: whatever fails
   for one handle the loop goes on with the others, and at the return every
   normalized, deduplicated handle is recorded exactly once - in errors (with a
   message) when its lookup or upsert failed, in notFound when no channel
   matched, in mappings when it was upserted; resolved = upserts = number of
   mappings.  ["@foo", "bar"] with @foo resolving and nothing failing gives
   resolved 1, notFound ["@bar"], upserts 1, errors []. *)
C14_HandleFailureIsRecorded ==
    dflow = "handles" =>
        /\ dpc # "threw"
        /\ (dpc = "run" /\ ddone # DOMAIN dtodo)
              => \E i \in DOMAIN dtodo \ ddone : ENABLED DiscoverOne(i)
        /\ dpc = "returned" =>
              /\ dsum.handlesProcessed = Cardinality(inputHandles)
              /\ \A h \in inputHandles :
                    countOf(dsum.notFound, LAMBDA x : x = h)
                    + countOf(dsum.errors, LAMBDA x : x.handle = h)
                    + countOf(dsum.mappings, LAMBDA x : x.handle = h) = 1
              /\ \A k \in DOMAIN dsum.notFound :
                    getChannelByHandle(dsum.notFound[k]) = NoItem
              /\ \A k \in DOMAIN dsum.errors :
                    dsum.errors[k].error \in {"api", "upsert"}
              /\ dsum.resolved = Len(dsum.mappings)
              /\ dsum.upserts = Len(dsum.mappings)
              /\ (dinput = << <<"@", "foo">>, <<"bar">> >> /\ dsum.errors = <<>>)
                    => /\ dsum.resolved = 1
                       /\ dsum.notFound = << <<"@", "bar">> >>
                       /\ dsum.upserts = 1

\* a call over three handles has returned: one failed, one matched no channel,
\* one was upserted
C14_Witness ==
    /\ dflow = "handles"
    /\ dpc = "returned"
    /\ dsum.handlesProcessed = 3
    /\ Len(dsum.errors) = 1
    /\ Len(dsum.notFound) = 1
    /\ dsum.upserts = 1

(* C15: at the return of discoverFromJson every distinct handle of the file,
   taken in its normalized '@' form, was looked up at most once and upserted at
   most once, and handlesProcessed is the number of these distinct handles. *)
C15_JsonHandlesCoalesced ==
    (dflow = "json" /\ dpc = "returned") =>
        /\ \A h \in inputHandles :
              /\ countOf(lookups, LAMBDA x : x = h) <= 1
              /\ countOf(dsum.mappings, LAMBDA x : x.handle = h) <= 1
        /\ dsum.handlesProcessed = Cardinality(inputHandles)

(* C16: every record mergeDiscoverRows returns stands for the rows of the file
   that carry its handle: its country is the country of the last of these rows
   (file order) with a non-empty country, null when there is none; its
   categories are the union of the categories of these rows, ascending and
   without duplicates. *)
C16_MergedCountryAndCategories ==
    dflow = "json" =>
        LET rows == parseRows(dinput)
        IN \A k \in DOMAIN dtodo :
              LET m == dtodo[k]
                  idx == {i \in DOMAIN rows : rows[i].handle = m.handle}
                  withC == {i \in idx : rows[i].country \notin {NullStr, ""}}
                  cats == m.categories.list
              IN /\ idx # {}
                 /\ m.country = IF withC = {} THEN NullStr ELSE rows[Max(withC)].country
                 /\ Range(cats) = UNION {Range(rows[i].categories.list) : i \in idx}
                 /\ \A a, b \in DOMAIN cats : a < b => catOrd(cats[a]) < catOrd(cats[b])

\* three rows of one handle were merged: two of them with different countries,
\* the last one without; categories given by more than one row
C16_Witness ==
    /\ dflow = "json"
    /\ \E k \in DOMAIN dtodo :
          LET rows == parseRows(dinput)
              idx == {i \in DOMAIN rows : rows[i].handle = dtodo[k].handle}
              withC == {i \in idx : rows[i].country \notin {NullStr, ""}}
          IN /\ Cardinality(idx) = 3
             /\ Cardinality({rows[i].country : i \in withC}) = 2
             /\ Max(idx) \notin withC
             /\ Len(dtodo[k].categories.list) >= 2

(* C17: after discoverFromJson, for a channel that one record of the merged
   file resolved to and that was upserted, the country on the Channel row is the
   record's country when it has one, otherwise the country of the API channel
   snippet, otherwise null; and the record's categories are the row's topic
   categories. *)
C17_CountryFileThenApi ==
    (dflow = "json" /\ dpc = "returned") =>
        \A k \in DOMAIN dsum.mappings :
            LET c == dsum.mappings[k].channelId
                es == {i \in DOMAIN dtodo :
                          getChannelByHandle(normHandle(dtodo[i].handle)).id = c}
            IN Cardinality(es) = 1 =>
                 LET e == dtodo[CHOOSE i \in es : TRUE]
                     item == getChannelByHandle(normHandle(e.handle))
                 IN /\ channelRepo[c].country =
                          IF e.country # NullStr THEN e.country
                          ELSE IF item.snippetCountry # NullStr THEN item.snippetCountry
                          ELSE NullStr
                    /\ e.categories.given =>
                          channelRepo[c].topicCategories_json
                             = [null |-> FALSE, value |-> e.categories.list]

(* C20: withBackoff invokes the wrapped request at most maxRetries + 1 times (6
   with the default); when it throws after rate-limit failures only, it has made
   exactly maxRetries + 1 invocations and throws the error of the last one; and
   every call ends, with a result or with an error. *)
C20_BackoffBoundedAndEnds ==
    /\ [](/\ fnCalls <= maxRetries + 1
          /\ maxRetries = defaultMaxRetries => fnCalls <= 6
          /\ attempt <= maxRetries
          /\ (bpc = "threw" /\ berr \in {403, 429}) => fnCalls = maxRetries + 1)
    /\ <>(bpc \in {"returned", "threw"})

\* the default call gave up after five retries of a rate-limited request
C20_Witness ==
    /\ maxRetries = defaultMaxRetries
    /\ bpc = "threw"
    /\ berr \in {403, 429}
    /\ fnCalls = 6
    /\ attempt = 5
    /\ delay = maxDelayMs

\* the statuses withBackoff treats as rate limiting
RateLimited(status) == status \in {403, 429}

\* C21: a request that fails with anything but a rate-limit response (another
\* status, or no response at all) is rethrown by withBackoff at once: no sleep
\* follows such a failure, the failing attempt is not repeated, and when it is
\* the first failure the request was attempted exactly once and the delay is
\* still the base delay
C21_OtherErrorsPropagateAtOnce ==
    /\ bpc = "sleep" => RateLimited(berr)
    /\ (bpc \in {"sleep", "threw"} /\ ~RateLimited(berr)) =>
          /\ bpc = "threw"
          /\ fnCalls = attempt + 1
    /\ (bpc = "threw" /\ ~RateLimited(berr) /\ attempt = 0) =>
          /\ fnCalls = 1
          /\ delay = baseDelayMs

\* a 500 answer to the first attempt of a call with the default maxRetries
C21_Witness ==
    /\ maxRetries = defaultMaxRetries
    /\ bpc = "threw"
    /\ berr = 500
    /\ fnCalls = 1
    /\ attempt = 0
    /\ delay = baseDelayMs

\* C22: transient failures of a request - timeouts and 5xx responses as well as
\* rate limiting - are retried with backoff: while retries are allowed, a failure
\* of one of these kinds is surfaced only after maxRetries retries
C22_TransientFailuresRetried ==
    (bpc = "threw" /\ berr \in {NoStatus, 500, 403, 429}) => attempt = maxRetries

\* the per-video tasks running in chunk task n of channel c, and in all chunks
perVideoRunning(c, n) ==
    IF c \in DOMAIN chunkState /\ n \in DOMAIN chunkState[c]
    THEN chunkState[c][n].active ELSE 0

RECURSIVE perVideoRunningIn(_)
perVideoRunningIn(S) ==
    IF S = {} THEN 0
    ELSE LET p == CHOOSE q \in S : TRUE
         IN perVideoRunning(p[1], p[2]) + perVideoRunningIn(S \ {p})

perVideoRunningTotal == perVideoRunningIn(LimitChannels \X (1..MaxChunks))

\* C23: during ingestChannelsByIds at most 3 channel tasks run, at most 6 chunk
\* tasks run over all channels, at most 10 per-video tasks run in one chunk, and
\* the per-video tasks running at one moment never exceed 3 * 6 * 10
C23_ConcurrencyWithinLimits ==
    /\ Cardinality(channelsRunning) <= 3
    /\ Cardinality(chunksRunning) <= 6
    /\ \A c \in LimitChannels, n \in 1..MaxChunks : perVideoRunning(c, n) <= 10
    /\ perVideoRunningTotal <= 3 * 6 * 10

\* every limiter is full and has a function waiting
C23_Witness ==
    /\ Cardinality(channelsRunning) = 3
    /\ \E c \in LimitChannels : chState[c] = "queued"
    /\ Cardinality(chunksRunning) = 6
    /\ \E c \in LimitChannels : \E n \in DOMAIN chunkState[c] :
          chunkState[c][n].st = "queued"
    /\ \E c \in LimitChannels : \E n \in DOMAIN chunkState[c] :
          /\ chunkState[c][n].active = 10
          /\ chunkState[c][n].todo > 0

\* the exception of channel c's task reached the catch block
Caught(c) == c \in params.input /\ task[c].hasRow /\ task[c].caught # NullStr

\* the summary at hand is the zeroed one of a runIngestFromDb call that selected
\* no channel (the pass before it is the one the other variables describe)
EmptySelectionReturned ==
    dbcall.n > 0 /\ dbcall.matched = <<>> /\ summary = ZeroSummary

Repeated ==
    /\ Returned
    /\ rerun.repeats
    /\ ~rerun.changed

\* C25: a Catalog Pass repeated over the same channels with the same upstream data
\* leaves the Video table as the first one left it: the same video ids, one row
\* each, and the same field values (fetchedAt and the cached blobs are not part
\* of the rows here)
C25_RepeatedPassSameVideos ==
    Repeated => videoRepo = rerun.video0

\* the task of channel c has computed its lower bound in the running pass
BoundComputed(c) ==
    phase = "catalog" /\ c \in params.input /\ pc[c] \in {"try", "chunks", "settled"}

\* C26: the lower bound of a channel's Catalog Pass is the override when one is
\* given, else the stored watermark minus 5 minutes when the channel has one, else
\* now minus 90 days (as instants; the override is passed on as the string given)
C26_EffectiveLowerBound ==
    \A c \in Channels :
        BoundComputed(c) =>
            IF params.publishedAfter # NoOverride
            THEN task[c].afterIso = params.publishedAfter
            ELSE IF c \in DOMAIN pre /\ pre[c].lastVideoPublishedAt # NullTime
                 THEN dateOf(task[c].afterIso) = pre[c].lastVideoPublishedAt - 300
                 ELSE dateOf(task[c].afterIso) = now - 90 * 86400

\* a pass without override over a channel with the stored watermark t(v3): the
\* lower bound is t(v3) - 5 min
C26_Witness ==
    /\ BoundComputed("c1")
    /\ params.publishedAfter = NoOverride
    /\ pre["c1"].lastVideoPublishedAt = publishedSecOf("v3")
    /\ dateOf(task["c1"].afterIso) = publishedSecOf("v3") - 5 * 60

\* the ids of a playlist published at or after the bound, in listing order
RECURSIVE eligibleOf(_, _)
eligibleOf(pl, afterIso) ==
    IF pl = <<>> THEN <<>>
    ELSE (IF IsoGE(apiIso(publishedSecOf(Head(pl))), afterIso) THEN <<Head(pl)>> ELSE <<>>)
         \o eligibleOf(Tail(pl), afterIso)

\* the first k pages of a playlist, as one sequence
firstPages(pl, k) == SubSeq(pl, 1, Min(Len(pl), k * pageLen))

\* C27: with maxVideos set, listUploadsSince returns at most maxVideos ids; when
\* the eligible ids on the pages it fetched reach the cap, it returns exactly the
\* first maxVideos eligible ids of the listing, in listing order, and the page on
\* which the cap was reached is the last one requested
C27_CapTruncatesExactly ==
    (call.fn = "listUploadsSince" /\ call.maxVideos > 0) =>
        LET r    == call.result
            seen == eligibleOf(firstPages(call.playlist, r.pagesFetched),
                               call.publishedAfterIso)
        IN /\ Len(r.videoIds) <= call.maxVideos
           /\ Len(seen) >= call.maxVideos =>
                 /\ r.videoIds = SubSeq(eligibleOf(call.playlist, call.publishedAfterIso),
                                        1, call.maxVideos)
                 /\ Len(eligibleOf(firstPages(call.playlist, r.pagesFetched - 1),
                                   call.publishedAfterIso)) < call.maxVideos

\* a page of two eligible items with maxVideos = 1, and a page left unrequested
C27_Witness ==
    /\ call.fn = "listUploadsSince"
    /\ pageLen = 2
    /\ call.maxVideos = 1
    /\ call.playlist = <<"v3", "v2", "v1">>
    /\ call.publishedAfterIso = toISOString(Clock0 - defaultWindowSec)
    /\ call.result.videoIds = <<"v3">>
    /\ call.result.pagesFetched = 1

\* ln(e.num) / ln(e.den) is a number >= 0: the numerator's argument is at least
\* 1 and the denominator's argument above 1 (ln > 0, so the quotient is finite)
NonNegativeFinite(e) == e # NullEng /\ e.num >= 1 /\ e.den > 1

\* C28: computeEngagement(views, subscribers) is null when subscribers <= 0 or
\* views < 0, else ln(views + 1) / ln(subscribers + 1), which is >= 0 and finite;
\* the engagement of a Video row is null or >= 0
C28_EngagementNullOrNonNegative ==
    /\ call.fn = "computeEngagement" =>
          IF call.subscribers <= 0 \/ call.views < 0
          THEN call.result = NullEng
          ELSE /\ call.result = [num |-> call.views + 1, den |-> call.subscribers + 1]
               /\ NonNegativeFinite(call.result)
    /\ \A v \in DOMAIN videoRepo :
          videoRepo[v].engagement = NullEng \/ NonNegativeFinite(videoRepo[v].engagement)

\* the smallest score: no view and one subscriber, ln(1) / ln(2) = 0, and a row
\* stored with a score
C28_Witness ==
    /\ call.fn = "computeEngagement"
    /\ call.views = 0
    /\ call.subscribers = 1
    /\ call.result = [num |-> 1, den |-> 2]
    /\ \E v \in DOMAIN videoRepo : videoRepo[v].engagement # NullEng

\* channel ids whose hash falls in each of the three ranges
SplitIds == {"c1", "c2", "c3", "c8"}

\* C29: assignSplit gives each channel id one label of train / val / test, and
\* after any sequence of enrichments the Thumbnail rows of one channel all carry
\* the label of their channel id
C29_SplitFixedPerChannel ==
    /\ \A id \in SplitIds : assignSplit(id) \in {"train", "val", "test"}
    /\ {assignSplit(id) : id \in SplitIds} = {"train", "val", "test"}
    /\ \A v \in DOMAIN thumbnailRows :
          /\ thumbnailRows[v].split = assignSplit(thumbnailRows[v].channelId)
          /\ \A w \in DOMAIN thumbnailRows :
                thumbnailRows[w].channelId = thumbnailRows[v].channelId
                   => thumbnailRows[w].split = thumbnailRows[v].split

\* the second pass has written a row for a channel that had a row before it
C29_Witness ==
    /\ eruns = 2
    /\ \E v \in DOMAIN thumbnailRows \ thumb0 : \E w \in thumb0 :
          /\ w \in DOMAIN thumbnailRows
          /\ thumbnailRows[w].channelId = thumbnailRows[v].channelId
          /\ thumbnailRows[v].split = "train"

\* a detection of the payload is of a vehicle class and passes both filters:
\* confidence at least 0.5 and box area at least 0.2% of the frame
vehicleSurvives(v) ==
    \E i \in DOMAIN v.raw :
        /\ v.raw[i].name \in {"car", "bus", "truck", "motorcycle", "train"}
        /\ v.raw[i].conf >= 50
        /\ v.raw[i].w * v.raw[i].h * 1000 >=
              2 * (IF v.imageSize = NoSize THEN 1
                   ELSE v.imageSize.width * v.imageSize.height)

\* C30: refineVision puts the tag "vehicle" in the tag set whenever a
\* vehicle-class detection survives the confidence and area filters
C30_VehicleTagAdded ==
    (call.fn = "refineVision" /\ vehicleSurvives(call.v)) =>
        "vehicle" \in Range(call.result.tags)

\* (what the code does: the coarse tag it adds is "car")
C30_CarTagAdded ==
    (call.fn = "refineVision" /\ vehicleSurvives(call.v)) =>
        "car" \in Range(call.result.tags)

\* the latest publish time among the given ids, as the platform prints it
\* (no ids: null)
latestOf(ids) ==
    IF ids = {} THEN NullIso
    ELSE apiIso(CHOOSE t \in {publishedSecOf(v) : v \in ids} :
                    \A v \in ids : publishedSecOf(v) <= t)

\* C31: listUploadsSince returns only ids of listed videos published at or after
\* the lower bound; with no cap and a listing ordered newest first it returns
\* every such id; mostRecentPublishedAt is the latest publish time over all
\* items of the pages it fetched
C31_CollectsEligibleAndTracksMax ==
    (call.fn = "listUploadsSince") =>
        LET r  == call.result
            pl == call.playlist
        IN /\ \A id \in Range(r.videoIds) :
                 /\ id \in Range(pl)
                 /\ publishedSecOf(id) >= dateOf(call.publishedAfterIso)
           /\ (call.maxVideos = NoCap /\ NewestFirst(pl)) =>
                 Range(r.videoIds) =
                    {id \in Range(pl) : publishedSecOf(id) >= dateOf(call.publishedAfterIso)}
           /\ r.mostRecentPublishedAt = latestOf(Range(firstPages(pl, r.pagesFetched)))

\* three one-item pages, newest first, no cap, the bound at the second item: the
\* first two ids are returned and the third page is the one that crosses the bound
C31_Witness ==
    /\ call.fn = "listUploadsSince"
    /\ pageLen = 1
    /\ call.maxVideos = NoCap
    /\ call.playlist = <<"v3", "v2", "v1">>
    /\ call.publishedAfterIso = toISOString(publishedSecOf("v2"))
    /\ call.result.videoIds = <<"v3", "v2">>
    /\ call.result.pagesFetched = 3
    /\ call.result.mostRecentPublishedAt = apiIso(publishedSecOf("v3"))

\* the number of pages of a playlist (an empty playlist has one, empty, page)
pagesOf(pl) == IF pl = <<>> THEN 1 ELSE (Len(pl) + pageLen - 1) \div pageLen

\* page j of the playlist gives a reason to stop: it is empty, it carries no
\* next-page token, its last item is older than the lower bound, or the ids
\* collected up to it reach the cap
stopsAt(pl, j, afterIso, cap) ==
    LET pg == playlistItems(pl, j)
    IN \/ Len(pg.items) = 0
       \/ pg.nextPageToken = 0
       \/ publishedSecOf(pg.items[Len(pg.items)].videoId) < dateOf(afterIso)
       \/ cap # NoCap /\ Len(eligibleOf(firstPages(pl, j), afterIso)) >= cap

\* C32: listUploadsSince requests pages 1, 2, ... and the last page it requests
\* is the first one that is empty, has no next-page token, ends with an item
\* older than the lower bound, or reaches the cap; on a finite listing it
\* returns, having requested no more pages than the listing has
C32_PagingStopsAtFirstReason ==
    (call.fn = "listUploadsSince") =>
        LET k == call.result.pagesFetched
        IN /\ k >= 1
           /\ k <= pagesOf(call.playlist)
           /\ stopsAt(call.playlist, k, call.publishedAfterIso, call.maxVideos)
           /\ \A j \in 1..(k - 1) :
                 ~stopsAt(call.playlist, j, call.publishedAfterIso, call.maxVideos)

\* one-item pages, no cap: the second page ends below the bound and the third,
\* though announced by a token, is not requested
C32_Witness ==
    /\ call.fn = "listUploadsSince"
    /\ pageLen = 1
    /\ call.maxVideos = NoCap
    /\ call.playlist = <<"v3", "v2", "v1">>
    /\ call.publishedAfterIso = apiIso(publishedSecOf("v3"))
    /\ playlistItems(call.playlist, 2).nextPageToken = 3
    /\ call.result.pagesFetched = 2
    /\ call.result.videoIds = <<"v3">>

\* this step writes scrapeStatus = done (with the markers) on channel c
WritesDone(c) ==
    /\ Len(writes'[c]) = Len(writes[c]) + 1
    /\ writes'[c][Len(writes'[c])] = "done"

\* this step rejects chunk task n of channel c
Rejects(c, n) ==
    /\ n \in DOMAIN task[c].chunks
    /\ task[c].chunks[n] = "pending"
    /\ n \in DOMAIN task'[c].chunks
    /\ task'[c].chunks[n] = "rejected"

\* C33: the step that writes scrapeStatus = done and the markers of a channel is
\* taken only when every hydration chunk task of the channel has settled,
\* fulfilled or rejected; the step in which a chunk task rejects leaves the
\* channel's other chunk tasks as they were and the channel task awaiting them
C33_DoneAfterAllChunksSettled ==
    [][\A c \in Channels :
          /\ WritesDone(c) =>
                \A n \in DOMAIN task[c].chunks :
                    task[c].chunks[n] \in {"fulfilled", "rejected"}
          /\ \A n \in 1..MaxListing :
                Rejects(c, n) =>
                    /\ pc'[c] = "chunks"
                    /\ channelRepo' = channelRepo
                    /\ \A m \in DOMAIN task[c].chunks :
                          m # n => task'[c].chunks[m] = task[c].chunks[m]]_vars

\* a channel marked done whose first chunk was rejected and whose second chunk
\* was hydrated all the same: its video is stored
C33_Witness ==
    /\ EndedWith("c1", "done")
    /\ Len(task["c1"].chunks) = 2
    /\ task["c1"].chunks[1] = "rejected"
    /\ task["c1"].chunks[2] = "fulfilled"
    /\ task["c1"].videoIds[2] \in DOMAIN videoRepo
    /\ channelRepo["c1"].scrapeStatus = "done"
    /\ channelRepo["c1"].lastVideoPublishedAt # NullTime

\* this step settles the enrichOne task of video v
Enriches(v) == v \in settled' \ settled

\* C34: enrichOne asks for the download only when no file is at the video's
\* target path; with the file there it makes no download request, writes no file
\* and leaves imagesSaved alone; a file once written stays, so a video enriched
\* again after a completed download is not downloaded a second time
C34_DownloadOnlyWithoutFile ==
    [][/\ imageFiles \subseteq imageFiles'
       /\ \A v \in VideoIds :
             Enriches(v) =>
                /\ outcome'[v].downloadRequested => v \notin imageFiles
                /\ v \in imageFiles =>
                      /\ ~outcome'[v].downloadRequested
                      /\ imageFiles' = imageFiles
                      /\ eacc'.imagesSaved = eacc.imagesSaved
                /\ eacc'.imagesSaved # eacc.imagesSaved =>
                      /\ eacc'.imagesSaved = eacc.imagesSaved + 1
                      /\ v \notin imageFiles
                      /\ imageFiles' = imageFiles \cup {v}]_vars

\* a second run enriches a video whose file an earlier run had left (that run's
\* task threw after the download): the row is upserted, nothing is downloaded
C34_Witness ==
    /\ eruns = 2
    /\ \E v \in DOMAIN outcome :
          /\ outcome[v].result = "upserted"
          /\ ~outcome[v].downloadRequested
          /\ v \in imageFiles
          /\ v \notin thumb0
          /\ eacc.imagesSaved = 0
          /\ eacc.rowsUpserted > 0

\* the ingestion bookkeeping of a Channel row
bookkeepingOf(row) ==
    [lastIngestAt |-> row.lastIngestAt,
     lastVideoPublishedAt |-> row.lastVideoPublishedAt,
     scrapeStatus |-> row.scrapeStatus, scrapeError |-> row.scrapeError]

\* C35: whatever discoverFromHandles and discoverFromJson upsert, a channel that
\* was in the table before the call keeps its lastIngestAt, lastVideoPublishedAt,
\* scrapeStatus and scrapeError
C35_DiscoveryKeepsBookkeeping ==
    \A c \in DOMAIN pre :
        /\ c \in DOMAIN channelRepo
        /\ bookkeepingOf(channelRepo[c]) = bookkeepingOf(pre[c])

\* channel c1, left in error with a watermark by an earlier pass, was upserted
\* again by discovery: its country changed, its bookkeeping did not
C35_Witness ==
    /\ "c1" \in DOMAIN pre
    /\ pre["c1"].scrapeStatus = "error"
    /\ \E k \in DOMAIN dsum.mappings : dsum.mappings[k].channelId = "c1"
    /\ channelRepo["c1"].country # pre["c1"].country
    /\ channelRepo["c1"].scrapeStatus = "error"
    /\ channelRepo["c1"].scrapeError = "AxiosError: playlistItems"
    /\ channelRepo["c1"].lastVideoPublishedAt = publishedSecOf("v3")
    /\ channelRepo["c1"].lastIngestAt = Clock0 - DaySec

\* the handles of a list of the summary
handlesIn(list) == {list[k].handle : k \in DOMAIN list}

\* C36: at the return of discoverFromHandles and of discoverFromJson,
\* handlesProcessed = resolved + |notFound| + |errors|, upserts = resolved =
\* |mappings|, and no handle is in more than one of mappings, notFound and errors
C36_DiscoverSummaryAddsUp ==
    dpc = "returned" =>
        /\ dsum.handlesProcessed = dsum.resolved + Len(dsum.notFound) + Len(dsum.errors)
        /\ dsum.upserts = dsum.resolved
        /\ dsum.resolved = Len(dsum.mappings)
        /\ handlesIn(dsum.mappings) \cap Range(dsum.notFound) = {}
        /\ handlesIn(dsum.mappings) \cap handlesIn(dsum.errors) = {}
        /\ Range(dsum.notFound) \cap handlesIn(dsum.errors) = {}

\* C37: when a pass has changed a channel's lastVideoPublishedAt, the new value
\* is the publish time of a video whose id the pass collected for hydration, and
\* it is not below the lower bound the pass used for the channel
C37_WatermarkIsOfCollectedVideo ==
    \A c \in Channels :
        (/\ phase = "catalog"
         /\ EndedWith(c, "done")
         /\ channelRepo[c].lastVideoPublishedAt # pre[c].lastVideoPublishedAt)
        => /\ \E v \in Range(task[c].videoIds) :
                 publishedSecOf(v) = channelRepo[c].lastVideoPublishedAt
           /\ channelRepo[c].lastVideoPublishedAt >= dateOf(task[c].afterIso)

\* C38: after a Catalog Pass, a channel the pass marked done has scrapeError =
\* null, and a channel the pass marked error has a scrapeError that is not null
C38_ErrorTextMatchesStatus ==
    Returned =>
        \A c \in Channels :
            /\ EndedWith(c, "done") =>
                  /\ channelRepo[c].scrapeStatus = "done"
                  /\ channelRepo[c].scrapeError = NullStr
            /\ EndedWith(c, "error") =>
                  /\ channelRepo[c].scrapeStatus = "error"
                  /\ channelRepo[c].scrapeError # NullStr

\* a channel that the pass before had left in error, with its error text, was
\* marked done by this pass: the text is gone
C38_Witness ==
    /\ Returned
    /\ runs = 2
    /\ pre["c1"].scrapeStatus = "error"
    /\ pre["c1"].scrapeError # NullStr
    /\ EndedWith("c1", "done")
    /\ channelRepo["c1"].scrapeError = NullStr

\* the Thumbnail records the options of the export select
exportSelected ==
    {v \in thumbnailRepo : exportWhere(v, call.options, NullStr)}

\* the export has returned with every selected record once in the CSV (after
\* the one header line) and once in the JSONL file
ExportedEachOnce ==
    /\ call.csv[1] = csvHeaders
    /\ \A k \in 2..Len(call.csv) : call.csv[k] # csvHeaders
    /\ Len(call.csv) = 1 + Cardinality(exportSelected)
    /\ {call.csv[k][1] : k \in 2..Len(call.csv)} = exportSelected
    /\ Len(call.jsonl) = Cardinality(exportSelected)
    /\ {call.jsonl[k].videoId : k \in DOMAIN call.jsonl} = exportSelected
    /\ \A k \in DOMAIN call.jsonl : call.jsonl[k] = toJsonlRecord(thumbnailRows[call.jsonl[k].videoId])

\* C39: exportThumbnailsFromDb writes every selected Thumbnail record exactly
\* once to the CSV and to the JSONL file across its batches, writes the CSV header
\* once, and the rows it returns is the number of records written
C39_ExportWritesEachOnceAndCounts ==
    (call.fn = "exportThumbnailsFromDb" /\ call.pc = "returned") =>
        /\ ExportedEachOnce
        /\ call.rows = Len(call.jsonl)

\* (the part of C39 about the files alone)
C39_FilesHoldEachOnce ==
    (call.fn = "exportThumbnailsFromDb" /\ call.pc = "returned") => ExportedEachOnce

\* (what the code returns: twice the number of records written)
C39_RowsIsTwiceTheRecords ==
    (call.fn = "exportThumbnailsFromDb" /\ call.pc = "returned") =>
        call.rows = 2 * Len(call.jsonl)

\* the Video upserts of the pass that succeeded, and those that threw (a video
\* belongs to one channel, so the sets of the channels are disjoint)
upsertsSucceeded == UNION {task[c].upserted : c \in Channels}
upsertsFailed == UNION {task[c].upsertFailed : c \in Channels}

====
